---- MODULE Spec2Model ----
(***************************************************************************)
(* Model of the Hail air-quality monitor: the factory scorer, the          *)
(* threshold evaluator and the attribution narrator of analyzer.py, the    *)
(* wind resolver of enhanced_wind_fetcher.py, the violation store of       *)
(* violation_recorder.py (one caller, and two callers at once) and the     *)
(* regional scanner of background_scanner.py.                              *)
(*                                                                         *)
(* Units.  The source computes in floating point; the model computes in    *)
(* fixed point:                                                            *)
(*   angles and bearings      1 = 0.1 degree    (FullCircle = 3600)        *)
(*   wind/distance/emission   1 = 0.001 point   (ScoreMax = 100000)        *)
(*   composite_score          1 = 0.000001      (100.0 = 100000000)        *)
(*   confidence               1 = 0.0000001     (ConfMax = 1000000000)     *)
(*   gas values, thresholds   1 = 0.000001 mol/m2, or 1 ppb for CH4        *)
(*   times                    1 = 1 second, offsets relative to target     *)
(***************************************************************************)
EXTENDS Integers, Sequences, FiniteSets, TLC

VARIABLES
    pc,          \* which operation the behaviour is at
    hotspot,     \* the hotspot passed to the scorer
    wind_data,   \* the wind observation passed to the scorer
    factories,   \* the factory dicts, mutated in place by the scorer
    ranked,      \* the list the scorer returned
    angle_diff,  \* wind-score sweep: the angle the score was computed for
    wind_score,  \* wind-score sweep: the score computed for angle_diff
    gas,         \* threshold check: the gas argument
    value,       \* threshold check: the value argument
    threshold_result, \* threshold check: what the call produced
    city,        \* wind fetch: the city argument
    hours_ago,   \* wind fetch: age of target_time relative to now, in hours
    max_time_diff_minutes, \* wind fetch: the tolerance argument
    sources,     \* wind fetch: the selected source order
    idx,         \* wind fetch: position of the loop in sources
    queried,     \* wind fetch: the queries made so far and what each gave
    results,     \* wind fetch: the accepted candidates
    returned,    \* wind fetch: what fetch_wind_data gave its caller
    violation_data,   \* narrator: the violation passed to ai_analysis
    language,         \* narrator: st.session_state['language']
    model_configured, \* narrator: whether self.model is set
    model_calls,      \* narrator: calls made to model.generate_content
    model_outcome,    \* narrator: what the generative call did, if made
    prompt_sent,      \* narrator: the request handed to the model, if any
    analysis,         \* narrator: the text ai_analysis returned
    use_firestore,    \* recorder: which backend the recorder uses
    writable,         \* recorder: whether the backend initialised
    stored,           \* recorder: the records the backend holds
    now,              \* recorder: the wall clock, in half seconds
    calls,            \* recorder: save and delete calls made so far
    last_call,        \* recorder: the last call, its argument and result
    saved,            \* recorder: the saves that returned an id not deleted since
    cand_source,      \* confidence sweep: the source of the candidate
    cand_time_diff,   \* confidence sweep: its time difference, in seconds
    cand_confidence,  \* confidence sweep: what _calculate_confidence gave
    label_bearing,    \* cardinal sweep: the bearing, in 0.01 degree
    analyzer_label,   \* cardinal sweep: _get_direction_relative_to_hotspot of it
    fetcher_label,    \* cardinal sweep: _degrees_to_cardinal of it
    auto_record_violations, \* scanner: the argument of scan_all_cities
    gas_images,       \* scanner: the gases a regional image was fetched for
    scan_city,        \* scanner: position of the city loop in self.cities
    scan_gas,         \* scanner: position of the gas loop in gas_images
    city_data,        \* scanner: the dict of the city being scanned
    scan_results,     \* scanner: the results dict
    scan_outcome,     \* scanner: how scan_all_cities ended
    recordings,       \* scanner: the calls made to the recorder and what they did
    cache,            \* scanner: the cities written to the cache collection
    saver             \* concurrent saves: each caller's position and locals

scorerVars == <<pc, hotspot, wind_data, factories, ranked>>
sweepVars == <<angle_diff, wind_score, cand_source, cand_time_diff, cand_confidence,
               label_bearing, analyzer_label, fetcher_label>>
thresholdVars == <<gas, value, threshold_result>>
fetchVars == <<city, hours_ago, max_time_diff_minutes, sources, idx, queried,
               results, returned>>
narratorVars == <<violation_data, language, model_configured, model_calls,
                  model_outcome, prompt_sent, analysis>>
storeVars == <<use_firestore, writable, stored, now, calls, last_call, saved, saver>>
scannerVars == <<auto_record_violations, gas_images, scan_city, scan_gas, city_data,
                 scan_results, scan_outcome, recordings, cache>>

----------------------------------------------------------------------------
(* Python's None / a missing dict key in a numeric field *)
None == -1
Absent == -2

FullCircle == 3600
HalfCircle == 1800
ScoreMax == 100000
ConfMax == 1000000000

(* bound: the longest factory list handed to the scorer *)
MaxFactories == 3
MaxCalls == 3

(* bound: the largest time difference of the confidence sweep, in seconds *)
MaxTimeDiff == 3700

(* bound: the most gases one scan gets a regional image for *)
MaxImages == 2

Min(a, b) == IF a <= b THEN a ELSE b
Max(a, b) == IF a >= b THEN a ELSE b
Abs(a) == IF a < 0 THEN -a ELSE a

----------------------------------------------------------------------------
(* Inputs of the scorer *)

Gases == {"NO2", "CH4"}

(* Factories as find_nearby_factories hands them over: the registry entry  *)
(* plus distance_km, with the bearing _calculate_bearing gives for it.     *)
FactoryPool ==
    { [name |-> "A", bearing |-> 1800, distance_km |-> 2,   emissions |-> {"NO2"}],
      [name |-> "B", bearing |-> 1500, distance_km |-> 5,   emissions |-> {"NO2"}],
      [name |-> "C", bearing |-> 1900, distance_km |-> 50,  emissions |-> {"CH4"}],
      [name |-> "D", bearing |-> 1500, distance_km |-> 5,   emissions |-> {"NO2"}],
      [name |-> "E", bearing |-> 0,    distance_km |-> 0,   emissions |-> {"CH4"}],
      [name |-> "F", bearing |-> 900,  distance_km |-> Absent, emissions |-> {"NO2", "CH4"}] }

WindDirections == {None, 0, 251, 252, 299, 300, 1800}
WindConfidences == {Absent, 0, 40, 69, 70, 90}

FactoryLists ==
    UNION { { s \in [1..n -> FactoryPool] : \A i, j \in 1..n : s[i] = s[j] => i = j } :
              n \in 0..MaxFactories }

(* a factory dict before the scorer has written to it *)
Unscored(f) ==
    [ name |-> f.name, bearing |-> f.bearing, distance_km |-> f.distance_km,
      emissions |-> f.emissions,
      bearing_to_hotspot |-> Absent, angle_from_wind |-> Absent,
      likely_upwind |-> FALSE,
      scores |-> [wind |-> Absent, distance |-> Absent, emission |-> Absent],
      composite_score |-> Absent, confidence |-> Absent,
      fallback_ranking |-> "absent" ]

----------------------------------------------------------------------------
(* Scoring one factory *)

(* angle_diff = abs((reverse_bearing - wind_direction + 180) % 360 - 180) *)
AngleDiff(bearing, wind_direction) ==
    LET reverse_bearing == (bearing + HalfCircle) % FullCircle
    IN  Abs(((reverse_bearing - wind_direction + HalfCircle) % FullCircle) - HalfCircle)

(* wind alignment score, piecewise in angle_diff *)
WindScore_nooffset(a) ==
    IF a <= 150 THEN ScoreMax - a * 200
    ELSE IF a <= 300 THEN 70000 - a * 200
    ELSE IF a <= 600 THEN 40000 - (a - 300) * 100
    ELSE IF a <= 900 THEN Max(0, 10000 - (a - 600) * 33)
    ELSE 0
WindScore(a) ==
    IF a <= 150 THEN ScoreMax - a * 200
    ELSE IF a <= 300 THEN 70000 - (a - 150) * 200
    ELSE IF a <= 600 THEN 40000 - (a - 300) * 100
    ELSE IF a <= 900 THEN Max(0, 10000 - (a - 600) * 33)
    ELSE 0

(* bool(angle_diff < 30) *)
LikelyUpwind_inclusive(a) == a <= 300
LikelyUpwind(a) == a < 300

(* 100 * exp(-distance_km / 5), rounded to 0.001, for the distances used *)
ExpDecay(distance_km) ==
    CASE distance_km = 0   -> 100000
      [] distance_km = 1   -> 81873
      [] distance_km = 2   -> 67032
      [] distance_km = 3   -> 54881
      [] distance_km = 5   -> 36788
      [] distance_km = 10  -> 13534
      [] distance_km = 50  -> 5
      [] distance_km = 100 -> 0

DistanceScore(f) ==
    ExpDecay(IF f.distance_km = Absent THEN 100 ELSE f.distance_km)

EmissionScore(f, detected_gas) ==
    IF detected_gas \in f.emissions THEN ScoreMax ELSE 0

(* weighted sum, then the non-emitter penalty; unit 0.000001 *)
CompositeScore_nopenalty(scores) ==
    (40 * scores.wind + 30 * scores.distance + 20 * scores.emission) * 10
CompositeScore(scores) ==
    LET weighted == 40 * scores.wind + 30 * scores.distance + 20 * scores.emission
    IN  IF scores.emission = 0 THEN weighted ELSE weighted * 10

(* multiplier in tenths *)
ConfidenceMultiplier(wind_confidence) ==
    IF wind_confidence >= 70 THEN 10
    ELSE IF wind_confidence >= 40 THEN 8
    ELSE 5

Clamp(final_confidence) == Max(0, Min(ConfMax, final_confidence))

(* wind_data.get('confidence', 0 if not wind_success else ... 100) *)
WindConfidence(w) ==
    IF w.confidence # Absent THEN w.confidence
    ELSE IF ~w.success THEN 0 ELSE 100

(* the body of the per-factory loop *)
ScoreFactory(f, hs, w) ==
    LET useWind == w.success /\ w.direction_deg # None
        a == AngleDiff(f.bearing, w.direction_deg)
        scores == [ wind |-> IF useWind THEN WindScore(a) ELSE 0,
                    distance |-> DistanceScore(f),
                    emission |-> EmissionScore(f, hs.gas) ]
        composite_score == CompositeScore(scores)
        final_confidence == composite_score * ConfidenceMultiplier(WindConfidence(w))
    IN  [ f EXCEPT
            !.bearing_to_hotspot = f.bearing,
            !.angle_from_wind = IF useWind THEN a ELSE None,
            !.likely_upwind = IF useWind THEN LikelyUpwind(a) ELSE FALSE,
            !.scores = scores,
            !.composite_score = composite_score,
            !.confidence = Clamp(final_confidence) ]

(* the fallback re-ranking of one factory; distance_score * 0.9 or * 0.1 *)
FallbackFactory_bonus(f) ==
    IF f.scores.emission > 0
    THEN [ f EXCEPT !.confidence = f.scores.distance * 9000 + f.scores.emission * 2000,
                    !.fallback_ranking = "emission_match" ]
    ELSE [ f EXCEPT !.confidence = f.scores.distance * 1000,
                    !.fallback_ranking = "no_emission_match" ]
FallbackFactory(f) ==
    IF f.scores.emission > 0
    THEN [ f EXCEPT !.confidence = f.scores.distance * 9000,
                    !.fallback_ranking = "emission_match" ]
    ELSE [ f EXCEPT !.confidence = f.scores.distance * 1000,
                    !.fallback_ranking = "no_emission_match" ]

(* sorted(factories, key=confidence, reverse=True): stable *)
RECURSIVE InsertDesc(_, _)
InsertDesc(f, s) ==
    IF s = <<>> THEN <<f>>
    ELSE IF Head(s).confidence >= f.confidence
         THEN <<Head(s)>> \o InsertDesc(f, Tail(s))
         ELSE <<f>> \o s

(* the same sort with reverse=True left out *)
RECURSIVE InsertAsc(_, _)
InsertAsc(f, s) ==
    IF s = <<>> THEN <<f>>
    ELSE IF Head(s).confidence <= f.confidence
         THEN <<Head(s)>> \o InsertAsc(f, Tail(s))
         ELSE <<f>> \o s

RECURSIVE SortedByConfidence_ascending(_)
SortedByConfidence_ascending(s) ==
    IF s = <<>> THEN <<>>
    ELSE InsertAsc(s[Len(s)], SortedByConfidence_ascending(SubSeq(s, 1, Len(s) - 1)))

RECURSIVE SortedByConfidence(_)
SortedByConfidence(s) ==
    IF s = <<>> THEN <<>>
    ELSE InsertDesc(s[Len(s)], SortedByConfidence(SubSeq(s, 1, Len(s) - 1)))

ScoreAll(fs, hs, w) ==
    LET scored == [ i \in DOMAIN fs |-> ScoreFactory(fs[i], hs, w) ]
    IN  IF \E i \in DOMAIN scored : scored[i].likely_upwind THEN scored
        ELSE [ i \in DOMAIN scored |-> FallbackFactory(scored[i]) ]

----------------------------------------------------------------------------
(* The threshold evaluator *)

(* value is None *)
NoValue == -1000000000

(* config.GAS_PRODUCTS: the unit of each product *)
GAS_PRODUCTS ==
    [ g \in {"NO2", "SO2", "CO", "HCHO", "CH4"} |->
        [ unit |-> IF g = "CH4" THEN "ppb" ELSE "mol/m2" ] ]

(* config.GAS_THRESHOLDS; mol/m2 entries in 0.000001 mol/m2, CH4 in ppb *)
GAS_THRESHOLDS ==
    [ g \in {"NO2", "SO2", "CO", "HCHO", "CH4"} |->
        CASE g = "NO2"  -> [ column_threshold |-> 75,    critical_threshold |-> 150,   unit |-> "mol/m2" ]
          [] g = "SO2"  -> [ column_threshold |-> 2500,  critical_threshold |-> 5000,  unit |-> "mol/m2" ]
          [] g = "CO"   -> [ column_threshold |-> 25000, critical_threshold |-> 50000, unit |-> "mol/m2" ]
          [] g = "HCHO" -> [ column_threshold |-> 250,   critical_threshold |-> 500,   unit |-> "mol/m2" ]
          [] g = "CH4"  -> [ column_threshold |-> 1920,  critical_threshold |-> 1950,  unit |-> "ppb" ] ]

(* threshold_config.get(key): None when the gas or the key is missing *)
ThresholdConfigGet(g, key) ==
    IF g \notin DOMAIN GAS_THRESHOLDS THEN None
    ELSE IF key = "column_threshold" THEN GAS_THRESHOLDS[g].column_threshold
    ELSE GAS_THRESHOLDS[g].critical_threshold

(* critical = threshold * 2 when no critical threshold is configured *)
CriticalOrDefault(threshold, critical) ==
    IF critical = None THEN threshold * 2 ELSE critical

(* the severity ladder *)
Severity_strict(v, threshold, critical) ==
    IF v > critical THEN "critical"
    ELSE IF v >= threshold THEN "moderate"
    ELSE "normal"
Severity(v, threshold, critical) ==
    IF v >= critical THEN "critical"
    ELSE IF v >= threshold THEN "moderate"
    ELSE "normal"

(* (value - threshold) / threshold * 100, in 0.01 percent, rounded down *)
PercentageOver(v, threshold) == ((v - threshold) * 10000) \div threshold

NoResult == [ outcome |-> "none" ]

UnknownResult ==
    [ outcome |-> "returned", keys |-> {"violated", "severity"},
      violated |-> FALSE, severity |-> "unknown" ]

CheckThreshold(g, v) ==
    LET threshold == ThresholdConfigGet(g, "column_threshold")
        critical == ThresholdConfigGet(g, "critical_threshold")
    IN  IF g \notin DOMAIN GAS_PRODUCTS
        THEN [ outcome |-> "KeyError" ]
        ELSE IF threshold = None THEN UnknownResult
        ELSE IF v = NoValue THEN UnknownResult
        ELSE LET crit == CriticalOrDefault(threshold, critical)
                 severity == Severity(v, threshold, crit)
                 violated == severity # "normal"
             IN  [ outcome |-> "returned",
                   keys |-> {"violated", "severity", "threshold", "critical_threshold",
                             "measured_value", "percentage_over", "unit",
                             "unit_mismatch", "who_source"},
                   violated |-> violated,
                   severity |-> severity,
                   threshold |-> threshold,
                   critical_threshold |-> crit,
                   measured_value |-> v,
                   percentage_over |-> IF violated THEN PercentageOver(v, threshold) ELSE 0,
                   unit |-> GAS_THRESHOLDS[g].unit,
                   unit_mismatch |-> GAS_PRODUCTS[g].unit # GAS_THRESHOLDS[g].unit ]

GasInputs == DOMAIN GAS_PRODUCTS \cup {"O3", ""}

ValueInputs ==
    { NoValue, -5, 0, 74, 75, 76, 149, 150, 151, 249, 250, 499, 500,
      1919, 1920, 1949, 1950, 2499, 2500, 3840, 4999, 5000,
      24999, 25000, 49999, 50000 }

----------------------------------------------------------------------------
(* The wind resolver *)

WeatherStations == {"Hail"}

(* the three source orders, by age of target_time *)
SelectSources_strict(h) ==
    IF h < 3 THEN <<"openweather", "tomorrow_io", "metar", "weatherapi">>
    ELSE IF h < 24 THEN <<"tomorrow_io", "weatherapi", "openweather", "metar">>
    ELSE <<"weatherapi", "visualcrossing", "metar">>
SelectSources(h) ==
    IF h <= 3 THEN <<"openweather", "tomorrow_io", "metar", "weatherapi">>
    ELSE IF h <= 24 THEN <<"tomorrow_io", "weatherapi", "openweather", "metar">>
    ELSE <<"weatherapi", "visualcrossing", "metar">>

(* what one source can answer: an exception, nothing, or an observation    *)
(* taken offset seconds after (negative: before) target_time               *)
ObservedOffsets == {-1260, -960, -240, 302, 902, 960, 1500, 1830}
ObservedWinds ==
    { [direction_deg |-> 100, speed_ms |-> 2000],
      [direction_deg |-> 3500, speed_ms |-> 6000] }

SourceOutcomes ==
    { [kind |-> "raise", offset |-> 0, direction_deg |-> 0, speed_ms |-> 0],
      [kind |-> "none", offset |-> 0, direction_deg |-> 0, speed_ms |-> 0] }
    \cup { [kind |-> "data", offset |-> o, direction_deg |-> w.direction_deg,
            speed_ms |-> w.speed_ms] : o \in ObservedOffsets, w \in ObservedWinds }

Directions ==
    <<"N", "NNE", "NE", "ENE", "E", "ESE", "SE", "SSE",
      "S", "SSW", "SW", "WSW", "W", "WNW", "NW", "NNW">>

(* round(degrees / 22.5) % 16; no tie occurs at a multiple of 0.1 degree *)
DegreesToCardinal(degrees) == Directions[(((2 * degrees + 225) \div 450) % 16) + 1]

SourceConfidence(source) ==
    CASE source = "saudi_ncmc" -> 100
      [] source = "metar" -> 95
      [] source = "tomorrow_io" -> 95
      [] source = "openweather" -> 90
      [] source = "weatherapi" -> 85
      [] source = "visualcrossing" -> 85
      [] source = "interpolated" -> 85
      [] OTHER -> 50

(* time_diff is in seconds here *)
TimePenalty_strict(time_diff) ==
    IF time_diff < 300 THEN 0
    ELSE IF time_diff < 900 THEN 5
    ELSE IF time_diff < 1800 THEN 10
    ELSE IF time_diff < 3600 THEN 20
    ELSE 40
TimePenalty(time_diff) ==
    IF time_diff <= 300 THEN 0
    ELSE IF time_diff <= 900 THEN 5
    ELSE IF time_diff <= 1800 THEN 10
    ELSE IF time_diff <= 3600 THEN 20
    ELSE 40

CalculateConfidence(time_diff, source) ==
    Max(10, SourceConfidence(source) - TimePenalty(time_diff))

(* round(time_diff, 1): minutes in tenths; the offsets drawn have no ties *)
RoundTenths(time_diff) == (time_diff + 3) \div 6

(* time_diff <= max_time_diff_minutes *)
WithinTolerance_hour(time_diff, tolerance) == time_diff <= 3600
WithinTolerance(time_diff, tolerance) == time_diff <= tolerance * 60

(* time_diff <= 5 *)
EarlyExit_never(time_diff) == FALSE
EarlyExit(time_diff) == time_diff <= 300

(* except Exception: every exception of a source is caught *)
Caught_nothing(kind) == FALSE
Caught(kind) == TRUE

NoReturn == [ outcome |-> "none" ]
Raised == [ outcome |-> "raised" ]

(* the dict of an accepted candidate after wind_data.update(...) *)
AcceptedWindData(out, source) ==
    [ outcome |-> "returned",
      direction_deg |-> out.direction_deg,
      speed_ms |-> out.speed_ms,
      observation_time |-> out.offset,
      direction_cardinal |-> DegreesToCardinal(out.direction_deg),
      source |-> source,
      time_difference_minutes |-> RoundTenths(Abs(out.offset)),
      confidence |-> CalculateConfidence(Abs(out.offset), source),
      warning |-> "" ]

CreateFallbackWindData ==
    [ outcome |-> "returned",
      direction_deg |-> 0,
      speed_ms |-> 0,
      observation_time |-> 0,
      direction_cardinal |-> "UNKNOWN",
      source |-> "fallback",
      time_difference_minutes |-> 9990,
      confidence |-> 0,
      warning |-> "Wind data unavailable" ]

(* results.sort(key=time_difference_minutes): stable *)
RECURSIVE InsertByTimeDiff(_, _)
InsertByTimeDiff(r, s) ==
    IF s = <<>> THEN <<r>>
    ELSE IF Head(s).time_difference_minutes <= r.time_difference_minutes
         THEN <<Head(s)>> \o InsertByTimeDiff(r, Tail(s))
         ELSE <<r>> \o s

RECURSIVE SortByTimeDiff(_)
SortByTimeDiff(s) ==
    IF s = <<>> THEN <<>>
    ELSE InsertByTimeDiff(s[Len(s)], SortByTimeDiff(SubSeq(s, 1, Len(s) - 1)))

(* the elements of s that satisfy the test, in order *)
RECURSIVE BeforeTarget(_)
BeforeTarget(s) ==
    IF s = <<>> THEN <<>>
    ELSE IF Head(s).observation_time <= 0
         THEN <<Head(s)>> \o BeforeTarget(Tail(s))
         ELSE BeforeTarget(Tail(s))

RECURSIVE AfterTarget(_)
AfterTarget(s) ==
    IF s = <<>> THEN <<>>
    ELSE IF Head(s).observation_time > 0
         THEN <<Head(s)>> \o AfterTarget(Tail(s))
         ELSE AfterTarget(Tail(s))

(* max(before, key=observation_time): the first of the latest *)
LatestOf(s) ==
    LET i == CHOOSE i \in DOMAIN s :
                /\ \A j \in DOMAIN s : s[j].observation_time <= s[i].observation_time
                /\ \A j \in 1..(i - 1) : s[j].observation_time < s[i].observation_time
    IN  s[i]

(* min(after, key=observation_time): the first of the earliest *)
EarliestOf(s) ==
    LET i == CHOOSE i \in DOMAIN s :
                /\ \A j \in DOMAIN s : s[j].observation_time >= s[i].observation_time
                /\ \A j \in 1..(i - 1) : s[j].observation_time > s[i].observation_time
    IN  s[i]

(* direction across the 0/360 wrap, speed linear, both by time weight;     *)
(* the quotient is rounded down to 0.1 degree and 0.001 m/s                *)
InterpolateDirection_linear(b, a) ==
    LET total_diff == a.observation_time - b.observation_time
        elapsed == 0 - b.observation_time
    IN  ((b.direction_deg * total_diff + (a.direction_deg - b.direction_deg) * elapsed)
            \div total_diff) % FullCircle
InterpolateDirection(b, a) ==
    LET total_diff == a.observation_time - b.observation_time
        elapsed == 0 - b.observation_time
        wrap == Abs(a.direction_deg - b.direction_deg) > HalfCircle
        dir1 == IF wrap /\ a.direction_deg > b.direction_deg
                THEN b.direction_deg + FullCircle ELSE b.direction_deg
        dir2 == IF wrap /\ ~(a.direction_deg > b.direction_deg)
                THEN a.direction_deg + FullCircle ELSE a.direction_deg
    IN  ((dir1 * total_diff + (dir2 - dir1) * elapsed) \div total_diff) % FullCircle

InterpolateSpeed(b, a) ==
    LET total_diff == a.observation_time - b.observation_time
        elapsed == 0 - b.observation_time
    IN  (b.speed_ms * total_diff + (a.speed_ms - b.speed_ms) * elapsed) \div total_diff

(* _interpolate_wind_data; NoReturn stands for its None *)
InterpolateWindData(rs) ==
    LET before == BeforeTarget(rs)
        after == AfterTarget(rs)
    IN  IF Len(rs) < 2 THEN NoReturn
        ELSE IF before # <<>> /\ after # <<>>
        THEN LET b == LatestOf(before)
                 a == EarliestOf(after)
                 interp_dir == InterpolateDirection(b, a)
             IN  [ outcome |-> "returned",
                   direction_deg |-> interp_dir,
                   speed_ms |-> InterpolateSpeed(b, a),
                   observation_time |-> 0,
                   direction_cardinal |-> DegreesToCardinal(interp_dir),
                   source |-> "interpolated",
                   time_difference_minutes |-> 0,
                   confidence |-> 85,
                   warning |-> "" ]
        ELSE NoReturn

(* what fetch_wind_data does once the loop over the sources has ended *)
ResolveResults_nothreshold(rs) ==
    IF rs # <<>>
    THEN LET sorted == SortByTimeDiff(rs)
             best_result == sorted[1]
             interpolated == InterpolateWindData(sorted)
         IN  IF Len(sorted) >= 2 /\ interpolated # NoReturn
             THEN interpolated
             ELSE best_result
    ELSE CreateFallbackWindData
ResolveResults(rs) ==
    IF rs # <<>>
    THEN LET sorted == SortByTimeDiff(rs)
             best_result == sorted[1]
             interpolated == InterpolateWindData(sorted)
         IN  IF Len(sorted) >= 2 /\ best_result.time_difference_minutes > 150
                /\ interpolated # NoReturn
             THEN interpolated
             ELSE best_result
    ELSE CreateFallbackWindData

----------------------------------------------------------------------------
(* The attribution narrator *)

(* the violation inputs: the gas of the violation ("" when it is missing)  *)
(* and the wind dict; direction_deg may be None, time_offset_hours may be  *)
(* missing (the scanner's wind dict has none), confidence is in percent    *)
NarratorGases == Gases \cup {""}

NarratorWinds ==
    { [success |-> TRUE,  direction_deg |-> 0,    confidence |-> 90, time_offset_hours |-> 10],
      [success |-> TRUE,  direction_deg |-> 0,    confidence |-> 40, time_offset_hours |-> Absent],
      [success |-> FALSE, direction_deg |-> 0,    confidence |-> 0,  time_offset_hours |-> 10],
      [success |-> FALSE, direction_deg |-> None, confidence |-> Absent, time_offset_hours |-> Absent] }

Languages == {"en", "ar"}

(* what the generative model does when it is called *)
ModelBehaviours == {"text", "raise"}

(* MIN_CONFIDENCE_THRESHOLD = 40.0, in confidence units *)
MIN_CONFIDENCE_THRESHOLD == 400000000

(* s[:n] *)
Take(s, n) == SubSeq(s, 1, Min(n, Len(s)))

(* s[a:b] with 0-based a, b as in Python *)
Slice(s, a, b) == SubSeq(s, a + 1, Min(b, Len(s)))

(* [f.get('name', 'Unknown') for f in s] *)
Names(s) == [ i \in DOMAIN s |-> s[i].name ]

(* any(f.get('likely_upwind', False) for f in factories) *)
HasUpwind(fs) == \E i \in DOMAIN fs : fs[i].likely_upwind

(* any(f.get('confidence', 0) >= MIN_CONFIDENCE_THRESHOLD for f in factories) *)
HasConfident_30(fs) == \E i \in DOMAIN fs : fs[i].confidence >= 300000000
HasConfident(fs) == \E i \in DOMAIN fs : fs[i].confidence >= MIN_CONFIDENCE_THRESHOLD

(* if factories and not has_upwind and not has_confident *)
InconclusiveGate(fs) == fs # <<>> /\ ~HasUpwind(fs) /\ ~HasConfident(fs)

(* the language instruction the prompt carries *)
LanguageInstruction_english(lang) == "Respond in English."
LanguageInstruction(lang) ==
    IF lang = "ar"
    THEN "IMPORTANT: You MUST respond ENTIRELY in Arabic"
    ELSE "Respond in English."

(* the f-string of the prompt raises when it formats None with :.0f or the *)
(* 'N/A' default of time_offset_hours with :.1f                            *)
PromptRaises(vd) ==
    \/ vd.wind.direction_deg = None
    \/ vd.wind.time_offset_hours = Absent

(* the request: the prompt's violation details, its factory table           *)
(* (nearby_factories[:5]) and language instruction, and the map image      *)
BuildPrompt(vd, lang, image) ==
    [ gas |-> vd.gas,
      factories |-> Names(Take(vd.nearby_factories, 5)),
      language_instruction |-> LanguageInstruction(lang),
      image |-> image ]

NoPrompt ==
    [ gas |-> "", factories |-> <<>>, language_instruction |-> "", image |-> FALSE ]

(* the content of a narrative: its scenario, language and what it names *)
Narrative(scenario, lang) ==
    [ scenario |-> scenario, lang |-> lang, top |-> "", top_upwind |-> FALSE,
      tier |-> "", alternatives |-> <<>>, excluded |-> <<>>, compared |-> <<>>,
      other_downwind |-> 0, listed |-> <<>>, count |-> 0 ]

NoAnalysis == Narrative("none", "")

(* has_emission(factory, gas_type) *)
HasEmission(factory, gas_type) == gas_type \in factory.emissions

UpwindEmitters(fs, g) ==
    SelectSeq(fs, LAMBDA f : HasEmission(f, g) /\ f.likely_upwind)

AllEmitters(fs, g) == SelectSeq(fs, LAMBDA f : HasEmission(f, g))

NonEmitters(fs, g) == SelectSeq(Take(fs, 5), LAMBDA f : ~HasEmission(f, g))

(* candidates = upwind_emitters if upwind_emitters else all_emitters *)
Candidates(fs, g) ==
    IF UpwindEmitters(fs, g) # <<>> THEN UpwindEmitters(fs, g) ELSE AllEmitters(fs, g)

(* f.get('distance_km', 0) *)
DistanceOrZero(f) == IF f.distance_km = Absent THEN 0 ELSE f.distance_km

(* violation_data.get('wind', {}).get('confidence', 0) *)
NarratorWindConfidence(vd) ==
    IF vd.wind.confidence = Absent THEN 0 ELSE vd.wind.confidence

(* the messages that carry no data *)
NoFactoriesMessage(lang) ==
    IF lang = "ar" THEN Narrative("no_factories", "ar") ELSE Narrative("no_factories", "en")

GasMissingMessage(lang) ==
    IF lang = "ar" THEN Narrative("gas_missing", "ar") ELSE Narrative("gas_missing", "en")

AnalysisErrorMessage_english(lang) == Narrative("analysis_error", "en")
AnalysisErrorMessage(lang) ==
    IF lang = "ar" THEN Narrative("analysis_error", "ar") ELSE Narrative("analysis_error", "en")

(* the NO CLEAR SOURCE report, Arabic and English branches *)
NoClearSourceAr(vd, candidates, top) ==
    [ Narrative("no_clear_source", "ar") EXCEPT
        !.count = Len(candidates),
        !.top = top.name,
        !.listed = Names(Take(candidates, 5)) ]

NoClearSourceEn(vd, candidates, top) ==
    [ Narrative("no_clear_source", "en") EXCEPT
        !.count = Len(candidates),
        !.top = top.name,
        !.listed = Names(Take(candidates, 5)) ]

(* the MOST LIKELY SOURCE report: its parts in the Arabic branch *)
SimilarDistanceEmittersAr(all_emitters, top) ==
    SelectSeq(all_emitters, LAMBDA f :
        f.name # top.name /\ Abs(DistanceOrZero(f) - DistanceOrZero(top)) < 2)

OtherDownwindAr(all_emitters, top) ==
    SelectSeq(all_emitters, LAMBDA f :
        /\ ~f.likely_upwind
        /\ f.name # top.name
        /\ ~(\E i \in DOMAIN SimilarDistanceEmittersAr(all_emitters, top) :
                SimilarDistanceEmittersAr(all_emitters, top)[i] = f))

ConfidenceTierAr_nodistance(wind_confidence, top) ==
    IF wind_confidence < 50 THEN "MEDIUM-LOW"
    ELSE IF top.likely_upwind THEN "HIGH"
    ELSE "MEDIUM"
ConfidenceTierAr(wind_confidence, top) ==
    IF wind_confidence < 50 THEN "MEDIUM-LOW"
    ELSE IF top.likely_upwind /\ DistanceOrZero(top) < 5 THEN "HIGH"
    ELSE "MEDIUM"

AlternativesAr(candidates) ==
    IF Len(candidates) > 1 THEN Names(Slice(candidates, 1, 3)) ELSE <<>>

MostLikelySourceAr(vd, candidates, top) ==
    LET all_emitters == AllEmitters(vd.nearby_factories, vd.gas)
        non_emitters == NonEmitters(vd.nearby_factories, vd.gas)
    IN  [ Narrative("most_likely_source", "ar") EXCEPT
            !.top = top.name,
            !.top_upwind = top.likely_upwind,
            !.excluded = Names(Take(non_emitters, 2)),
            !.compared = Names(Take(SimilarDistanceEmittersAr(all_emitters, top), 2)),
            !.other_downwind = Len(OtherDownwindAr(all_emitters, top)),
            !.tier = ConfidenceTierAr(NarratorWindConfidence(vd), top),
            !.alternatives = AlternativesAr(candidates) ]

(* the MOST LIKELY SOURCE report: its parts in the English branch *)
SimilarDistanceEmittersEn(all_emitters, top) ==
    SelectSeq(all_emitters, LAMBDA f :
        f.name # top.name /\ Abs(DistanceOrZero(f) - DistanceOrZero(top)) < 2)

OtherDownwindEn(all_emitters, top) ==
    SelectSeq(all_emitters, LAMBDA f :
        /\ ~f.likely_upwind
        /\ f.name # top.name
        /\ ~(\E i \in DOMAIN SimilarDistanceEmittersEn(all_emitters, top) :
                SimilarDistanceEmittersEn(all_emitters, top)[i] = f))

ConfidenceTierEn(wind_confidence, top) ==
    IF wind_confidence < 50 THEN "MEDIUM-LOW"
    ELSE IF top.likely_upwind /\ DistanceOrZero(top) < 5 THEN "HIGH"
    ELSE "MEDIUM"

AlternativesEn(candidates) ==
    IF Len(candidates) > 1 THEN Names(Slice(candidates, 1, 3)) ELSE <<>>

MostLikelySourceEn(vd, candidates, top) ==
    LET all_emitters == AllEmitters(vd.nearby_factories, vd.gas)
        non_emitters == NonEmitters(vd.nearby_factories, vd.gas)
    IN  [ Narrative("most_likely_source", "en") EXCEPT
            !.top = top.name,
            !.top_upwind = top.likely_upwind,
            !.excluded = Names(Take(non_emitters, 2)),
            !.compared = Names(Take(SimilarDistanceEmittersEn(all_emitters, top), 2)),
            !.other_downwind = Len(OtherDownwindEn(all_emitters, top)),
            !.tier = ConfidenceTierEn(NarratorWindConfidence(vd), top),
            !.alternatives = AlternativesEn(candidates) ]

(* the report for factories none of which emits the gas *)
NoEmissionMatchAr(vd) ==
    [ Narrative("no_emission_match", "ar") EXCEPT
        !.count = Len(vd.nearby_factories),
        !.listed = Names(Take(vd.nearby_factories, 3)) ]

NoEmissionMatchEn(vd) ==
    [ Narrative("no_emission_match", "en") EXCEPT
        !.count = Len(vd.nearby_factories),
        !.listed = Names(Take(vd.nearby_factories, 3)) ]

(* {wind_deg:.0f} raises TypeError when direction_deg is None; both        *)
(* reports about a candidate format it, the other texts do not             *)
WindFormatRaises(vd) == vd.wind.direction_deg = None

(* _rule_based_analysis; lang is what get_current_language() returns *)
RuleBasedAnalysis_gasfirst(vd, lang) ==
    LET fs == vd.nearby_factories
        candidates == Candidates(fs, vd.gas)
        top == candidates[1]
    IN  IF vd.gas = "" THEN GasMissingMessage(lang)
        ELSE IF fs = <<>> THEN NoFactoriesMessage(lang)
        ELSE IF candidates # <<>>
        THEN IF WindFormatRaises(vd) THEN AnalysisErrorMessage(lang)
             ELSE IF ~top.likely_upwind /\ top.confidence < MIN_CONFIDENCE_THRESHOLD
             THEN IF lang = "ar" THEN NoClearSourceAr(vd, candidates, top)
                                 ELSE NoClearSourceEn(vd, candidates, top)
             ELSE IF lang = "ar" THEN MostLikelySourceAr(vd, candidates, top)
                                 ELSE MostLikelySourceEn(vd, candidates, top)
        ELSE IF lang = "ar" THEN NoEmissionMatchAr(vd) ELSE NoEmissionMatchEn(vd)
RuleBasedAnalysis(vd, lang) ==
    LET fs == vd.nearby_factories
        candidates == Candidates(fs, vd.gas)
        top == candidates[1]
    IN  IF fs = <<>> THEN NoFactoriesMessage(lang)
        ELSE IF vd.gas = "" THEN GasMissingMessage(lang)
        ELSE IF candidates # <<>>
        THEN IF WindFormatRaises(vd) THEN AnalysisErrorMessage(lang)
             ELSE IF ~top.likely_upwind /\ top.confidence < MIN_CONFIDENCE_THRESHOLD
             THEN IF lang = "ar" THEN NoClearSourceAr(vd, candidates, top)
                                 ELSE NoClearSourceEn(vd, candidates, top)
             ELSE IF lang = "ar" THEN MostLikelySourceAr(vd, candidates, top)
                                 ELSE MostLikelySourceEn(vd, candidates, top)
        ELSE IF lang = "ar" THEN NoEmissionMatchAr(vd) ELSE NoEmissionMatchEn(vd)

----------------------------------------------------------------------------
(* The violation store *)

(* violation_exists asks for the newest 100 records of the city and gas *)
DedupLimit == 100

(* a full_id: strftime("%Y%m%d_%H%M%S") of the clock, the city and the gas *)
FullId(t, c, g) == [ second |-> t \div 2, city |-> c, gas |-> g ]

NoId == [ second |-> None, city |-> "", gas |-> "" ]

(* the violations handed to save_violation: two satellite passes for each  *)
(* gas; what was measured for one pass is the same whenever it is detected *)
ViolationInputs ==
    { [ city |-> "Hail", gas |-> g, timestamp_ksa |-> 1,
        severity |-> "moderate", percentage_over |-> 205,
        nearby_factories |-> <<"A", "B">> ] : g \in Gases }
    \cup
    { [ city |-> "Hail", gas |-> g, timestamp_ksa |-> 101,
        severity |-> "critical", percentage_over |-> 1500,
        nearby_factories |-> <<"A", "B", "C", "D", "E", "F">> ] : g \in Gases }

NoInput ==
    [ city |-> "", gas |-> "", timestamp_ksa |-> None, severity |-> "",
      percentage_over |-> 0, nearby_factories |-> <<>> ]

(* the record save_violation builds at clock t; an empty factory list      *)
(* leaves the key out, read here as the empty list                         *)
BuildRecord(vd, t) ==
    [ id |-> FullId(t, vd.city, vd.gas),
      timestamp |-> t,
      satellite_timestamp |-> vd.timestamp_ksa,
      city |-> vd.city,
      gas |-> vd.gas,
      severity |-> vd.severity,
      percentage_over |-> vd.percentage_over,
      nearby_factories |-> Take(vd.nearby_factories, 5) ]

NoRecord ==
    [ id |-> NoId, timestamp |-> None, satellite_timestamp |-> None, city |-> "",
      gas |-> "", severity |-> "", percentage_over |-> 0, nearby_factories |-> <<>> ]

(* a store that already holds DedupLimit NO2 records of the city from      *)
(* earlier runs, one per second, for the satellite passes 1..DedupLimit    *)
ExistingRecords ==
    [ k \in 1..DedupLimit |->
        [ id |-> FullId(2 * (k - DedupLimit - 1), "Hail", "NO2"),
          timestamp |-> 2 * (k - DedupLimit - 1),
          satellite_timestamp |-> k,
          city |-> "Hail",
          gas |-> "NO2",
          severity |-> "moderate",
          percentage_over |-> 205,
          nearby_factories |-> <<"A", "B">> ] ]

(* the records left by the city and gas filters of _get_from_firestore and *)
(* _get_from_local; an empty filter is skipped                             *)
FilterRecords(records, c, g) ==
    SelectSeq(records, LAMBDA r : (c = "" \/ r.city = c) /\ (g = "" \/ r.gas = g))

(* the position of records[k] after records.sort(key=timestamp,            *)
(* reverse=True), counted from 0; the sort is stable                       *)
SortedPosition(records, k) ==
    Cardinality({ j \in DOMAIN records :
                    \/ records[j].timestamp > records[k].timestamp
                    \/ records[j].timestamp = records[k].timestamp /\ j < k })

(* violation_exists: the id of the first of the newest `limit` records of  *)
(* the city and gas whose satellite timestamp is the one given, or None    *)
ViolationExists(records, c, g, satellite_timestamp, limit) ==
    LET fs == FilterRecords(records, c, g)
        hits == { k \in DOMAIN fs :
                    /\ fs[k].satellite_timestamp = satellite_timestamp
                    /\ SortedPosition(fs, k) < limit }
    IN  IF hits = {} THEN NoId
        ELSE fs[CHOOSE k \in hits :
                  \A j \in hits : SortedPosition(fs, k) <= SortedPosition(fs, j)].id

(* doc_ref.set(record): the document of that id is created or replaced *)
SaveToFirestore(records, record) ==
    IF \E k \in DOMAIN records : records[k].id = record.id
    THEN [ k \in DOMAIN records |->
             IF records[k].id = record.id THEN record ELSE records[k] ]
    ELSE Append(records, record)

(* records.append(record) *)
SaveToLocal(records, record) == Append(records, record)

(* get_violation_by_id: the document of the id, or the first record of the *)
(* file with the id                                                        *)
GetViolationById(records, id) ==
    IF \E k \in DOMAIN records : records[k].id = id
    THEN records[CHOOSE k \in DOMAIN records :
                    /\ records[k].id = id
                    /\ \A j \in DOMAIN records : records[j].id = id => k <= j]
    ELSE NoRecord

(* records = [r for r in records if r.get('id') != violation_id] *)
DeleteRecords(records, id) == SelectSeq(records, LAMBDA r : r.id # id)

NoCall ==
    [ op |-> "none", input |-> NoInput, id |-> NoId, wrote |-> FALSE,
      triple_stored |-> FALSE, found |-> NoRecord, ok |-> FALSE ]

----------------------------------------------------------------------------
(* The scorer as a state machine *)

ScorerIdle ==
    /\ hotspot = [ gas |-> "NO2" ]
    /\ wind_data = [ success |-> FALSE, direction_deg |-> None, confidence |-> Absent ]
    /\ factories = <<>>
    /\ ranked = <<>>

SweepIdle ==
    /\ angle_diff = 0
    /\ wind_score = 0
    /\ cand_source = ""
    /\ cand_time_diff = 0
    /\ cand_confidence = 0
    /\ label_bearing = 0
    /\ analyzer_label = ""
    /\ fetcher_label = ""

FetchIdle ==
    /\ city = "Hail"
    /\ hours_ago = 3
    /\ max_time_diff_minutes = 30
    /\ sources = <<>>
    /\ idx = 0
    /\ queried = <<>>
    /\ results = <<>>
    /\ returned = NoReturn

ThresholdIdle ==
    /\ gas = "NO2"
    /\ value = NoValue
    /\ threshold_result = NoResult

NarratorIdle ==
    /\ violation_data = [ nearby_factories |-> <<>>, gas |-> "",
                          wind |-> [ success |-> FALSE, direction_deg |-> None,
                                     confidence |-> Absent,
                                     time_offset_hours |-> Absent ] ]
    /\ language = "en"
    /\ model_configured = FALSE
    /\ model_calls = 0
    /\ model_outcome = "not_called"
    /\ prompt_sent = NoPrompt
    /\ analysis = NoAnalysis

StoreIdle ==
    /\ use_firestore = FALSE
    /\ writable = FALSE
    /\ stored = <<>>
    /\ now = 0
    /\ calls = 0
    /\ last_call = NoCall
    /\ saved = {}
    /\ saver = <<>>

NoCityData ==
    [ city |-> "", readings |-> <<>>, violations |-> <<>>, successful_gases |-> 0,
      threshold_percentages |-> <<>>, metrics |-> [ computed |-> FALSE ] ]

(* the results dict scan_all_cities starts from *)
EmptyResults ==
    [ cities |-> <<>>, violations |-> <<>>, gases_scanned |-> 0,
      cities_with_data |-> 0, error |-> "" ]

ScannerIdle ==
    /\ auto_record_violations = FALSE
    /\ gas_images = <<>>
    /\ scan_city = 0
    /\ scan_gas = 0
    /\ city_data = NoCityData
    /\ scan_results = EmptyResults
    /\ scan_outcome = "none"
    /\ recordings = <<>>
    /\ cache = <<>>

InitScorer ==
    /\ pc = "ready"
    /\ hotspot \in [ gas : Gases ]
    /\ wind_data \in [ success : BOOLEAN, direction_deg : WindDirections,
                       confidence : WindConfidences ]
    /\ \E fs \in FactoryLists : factories = [ i \in DOMAIN fs |-> Unscored(fs[i]) ]
    /\ ranked = <<>>

calculate_wind_vector_to_factories ==
    /\ pc = "ready"
    /\ factories' = ScoreAll(factories, hotspot, wind_data)
    /\ ranked' = SortedByConfidence(factories')
    /\ pc' = "scored"
    /\ UNCHANGED <<hotspot, wind_data>>
    /\ UNCHANGED <<sweepVars, thresholdVars, fetchVars, narratorVars, storeVars, scannerVars>>

vars == <<scorerVars, sweepVars, thresholdVars, fetchVars, narratorVars, storeVars,
          scannerVars>>

Init ==
    /\ InitScorer /\ SweepIdle /\ ThresholdIdle /\ FetchIdle /\ NarratorIdle
    /\ StoreIdle /\ ScannerIdle

Next == calculate_wind_vector_to_factories

Spec == Init /\ [][Next]_vars

----------------------------------------------------------------------------
(* The wind alignment score swept over angle_diff = 0 .. 180 degrees *)

InitSweep ==
    /\ pc = "sweep"
    /\ ScorerIdle
    /\ ThresholdIdle
    /\ FetchIdle
    /\ NarratorIdle
    /\ StoreIdle
    /\ ScannerIdle
    /\ angle_diff = 0
    /\ wind_score = WindScore(0)
    /\ cand_source = "" /\ cand_time_diff = 0 /\ cand_confidence = 0
    /\ label_bearing = 0 /\ analyzer_label = "" /\ fetcher_label = ""

SweepWindScore ==
    /\ pc = "sweep"
    /\ angle_diff < HalfCircle
    /\ angle_diff' = angle_diff + 1
    /\ wind_score' = WindScore(angle_diff')
    /\ UNCHANGED <<cand_source, cand_time_diff, cand_confidence>>
    /\ UNCHANGED <<label_bearing, analyzer_label, fetcher_label>>
    /\ UNCHANGED <<hotspot, wind_data, factories, ranked>>
    /\ UNCHANGED <<pc, thresholdVars, fetchVars, narratorVars, storeVars, scannerVars>>

SpecWindScore == InitSweep /\ [][SweepWindScore]_vars

----------------------------------------------------------------------------
(* Claims about the scorer *)

Scored == pc = "scored"

(* confidence units per score unit *)
ConfPerScore == ConfMax \div ScoreMax

Count(s, r) == Cardinality({ i \in DOMAIN s : s[i] = r })

(* C1: the scorer returns the same factories, each one's final confidence  *)
(* greater than or equal to that of the factory after it, in the normal    *)
(* and in the fallback-ranking path.                                       *)
C1_SortedByConfidenceDesc ==
    Scored =>
        /\ Len(ranked) = Len(factories)
        /\ \A i \in DOMAIN factories :
              Count(ranked, factories[i]) = Count(factories, factories[i])
        /\ \A i \in 1..(Len(ranked) - 1) :
              ranked[i].confidence >= ranked[i + 1].confidence

C1_Witness ==
    /\ Scored
    /\ Len(ranked) = 3
    /\ ranked # factories
    /\ ranked[1].fallback_ranking # "absent"
    /\ ranked[1].confidence > ranked[3].confidence

(* C2: after scoring every factory's confidence lies in 0..100, also when  *)
(* the fallback re-ranking overwrote the clamped value.                    *)
C2_ConfidenceInRange ==
    Scored =>
        \A i \in DOMAIN ranked :
            ranked[i].confidence >= 0 /\ ranked[i].confidence <= ConfMax

C2_Witness ==
    /\ Scored
    /\ \E i \in DOMAIN ranked :
          /\ ranked[i].fallback_ranking = "emission_match"
          /\ ranked[i].distance_km = 0
          /\ ranked[i].confidence > 0

(* C3: when no scored factory has angle_diff < 30 (wind failure included)  *)
(* every factory is not upwind and gets distance_score * 0.9 with label    *)
(* emission_match if it emits the detected gas, distance_score * 0.1 with  *)
(* label no_emission_match otherwise; when some factory is upwind no       *)
(* confidence is replaced by the fallback value.                           *)
NoFactoryWithin30 ==
    \A i \in DOMAIN factories :
        factories[i].angle_from_wind = None \/ factories[i].angle_from_wind >= 300

C3_FallbackActivation ==
    Scored =>
        IF NoFactoryWithin30
        THEN \A i \in DOMAIN factories :
                LET f == factories[i] IN
                /\ ~f.likely_upwind
                /\ IF hotspot.gas \in f.emissions
                   THEN /\ f.confidence = f.scores.distance * 9 * (ConfPerScore \div 10)
                        /\ f.fallback_ranking = "emission_match"
                   ELSE /\ f.confidence = f.scores.distance * 1 * (ConfPerScore \div 10)
                        /\ f.fallback_ranking = "no_emission_match"
        ELSE \A i \in DOMAIN factories :
                LET f == factories[i] IN
                /\ f.fallback_ranking = "absent"
                /\ f.confidence =
                     Max(0, Min(ConfMax, f.composite_score
                                 * ConfidenceMultiplier(WindConfidence(wind_data))))

C3_Witness ==
    /\ Scored
    /\ wind_data.success /\ wind_data.direction_deg # None
    /\ NoFactoryWithin30
    /\ \E i, j \in DOMAIN factories :
          /\ factories[i].angle_from_wind = 300
          /\ factories[i].fallback_ranking = "emission_match"
          /\ factories[j].fallback_ranking = "no_emission_match"

(* C4 scenario: an upwind emitter at 2 km, a downwind emitter at 5 km and  *)
(* an upwind non-emitter at 50 km, wind confidence 90.                     *)
Emits(f) == hotspot.gas \in f.emissions

Scenario3(a, b, c) ==
    /\ Len(factories) = 3
    /\ {a, b, c} = DOMAIN factories
    /\ WindConfidence(wind_data) = 90
    /\ factories[a].distance_km = 2 /\ Emits(factories[a]) /\ factories[a].likely_upwind
    /\ factories[b].distance_km = 5 /\ Emits(factories[b]) /\ ~factories[b].likely_upwind
    /\ factories[c].distance_km = 50 /\ ~Emits(factories[c]) /\ factories[c].likely_upwind

(* C4 as stated: the 2 km factory is ranked first with confidence > 60 for *)
(* every wind direction under which it counts as upwind.                   *)
C4_Original ==
    Scored =>
        \A a, b, c \in DOMAIN factories :
            Scenario3(a, b, c) =>
                /\ ranked[1] = factories[a]
                /\ ranked[1].confidence > 60 * (ConfMax \div 100)

(* C4 amended: in the scenario the 2 km factory is ranked first and its    *)
(* confidence is greater than 56; it is greater than 60 whenever its       *)
(* angle_diff is at most 25 degrees.                                       *)
C4_Amended ==
    Scored =>
        \A a, b, c \in DOMAIN factories :
            Scenario3(a, b, c) =>
                /\ ranked[1] = factories[a]
                /\ ranked[1].confidence > 56 * (ConfMax \div 100)
                /\ factories[a].angle_from_wind <= 250
                      => ranked[1].confidence > 60 * (ConfMax \div 100)

C4_Witness ==
    /\ Scored
    /\ \E a, b, c \in DOMAIN factories :
          /\ Scenario3(a, b, c)
          /\ factories[a].angle_from_wind = 299
          /\ ranked[1] = factories[a]
          /\ ranked[1].confidence <= 60 * (ConfMax \div 100)

(* C5: the wind alignment score never increases as angle_diff grows from 0 *)
(* to 180 degrees, across the piece boundaries at 15, 30, 60 and 90, and   *)
(* always lies in 0..100.                                                  *)
C5_WindScoreMonotone ==
    /\ [](wind_score >= 0 /\ wind_score <= ScoreMax)
    /\ [][angle_diff' > angle_diff => wind_score' <= wind_score]_vars

C5_Witness ==
    /\ pc = "sweep"
    /\ angle_diff = 601
    /\ wind_score > 0 /\ wind_score < 10000

(* C6: for fixed wind and distance scores, the composite score with        *)
(* emission score 0 is at most 0.1 times the composite score with emission *)
(* score 100.                                                              *)
C6_NonEmitterComposite ==
    Scored =>
        \A i \in DOMAIN factories :
            LET sc == factories[i].scores
                with0 == CompositeScore([sc EXCEPT !.emission = 0])
                with100 == CompositeScore([sc EXCEPT !.emission = ScoreMax])
            IN  /\ with0 * 10 <= with100
                /\ factories[i].composite_score \in {with0, with100}

C6_Witness ==
    /\ Scored
    /\ \E i \in DOMAIN factories :
          /\ factories[i].scores.emission = 0
          /\ factories[i].scores.wind > 0
          /\ factories[i].scores.distance > 0
          /\ factories[i].composite_score > 0

----------------------------------------------------------------------------
(* The threshold evaluator as a state machine *)

InitThreshold ==
    /\ pc = "threshold"
    /\ ScorerIdle
    /\ SweepIdle
    /\ FetchIdle
    /\ NarratorIdle
    /\ StoreIdle
    /\ ScannerIdle
    /\ gas \in GasInputs
    /\ value \in ValueInputs
    /\ threshold_result = NoResult

check_threshold_violation ==
    /\ pc = "threshold"
    /\ threshold_result' = CheckThreshold(gas, value)
    /\ pc' = "checked"
    /\ UNCHANGED <<gas, value>>
    /\ UNCHANGED <<hotspot, wind_data, factories, ranked, sweepVars, fetchVars,
                   narratorVars, storeVars, scannerVars>>

SpecThreshold == InitThreshold /\ [][check_threshold_violation]_vars

----------------------------------------------------------------------------
(* Claims about the threshold evaluator *)

Checked == pc = "checked"

HasThreshold(g) ==
    g \in DOMAIN GAS_THRESHOLDS /\ GAS_THRESHOLDS[g].column_threshold # None

(* C7: for a gas with a configured threshold and a measured value: below   *)
(* the threshold the result is not violated with percentage_over 0; at or  *)
(* above the critical threshold (2 x threshold when none is configured)    *)
(* the severity is critical; whenever violated, percentage_over >= 0.      *)
C7_ThresholdLadder ==
    (Checked /\ HasThreshold(gas) /\ value # NoValue) =>
        LET cfg == GAS_THRESHOLDS[gas]
            crit == IF cfg.critical_threshold = None
                    THEN 2 * cfg.column_threshold ELSE cfg.critical_threshold
            r == threshold_result
        IN  /\ r.outcome = "returned"
            /\ value < cfg.column_threshold =>
                   r.violated = FALSE /\ r.percentage_over = 0
            /\ value >= crit => r.severity = "critical"
            /\ r.violated => r.percentage_over >= 0

C7_Witness ==
    /\ Checked
    /\ gas = "CH4"
    /\ value = 1950
    /\ threshold_result.outcome = "returned"
    /\ threshold_result.severity = "critical"
    /\ threshold_result.percentage_over > 0

(* C8: called with a gas that has no configured threshold, the evaluator   *)
(* returns {violated: false, severity: 'unknown'} and does not raise,      *)
(* whatever the value and whether or not the gas is a known product.       *)
C8_UnknownGas ==
    (Checked /\ ~HasThreshold(gas)) =>
        /\ threshold_result.outcome = "returned"
        /\ threshold_result.violated = FALSE
        /\ threshold_result.severity = "unknown"

----------------------------------------------------------------------------
(* fetch_wind_data as a state machine: one step per source queried *)

InitFetch ==
    /\ pc = "fetch"
    /\ ScorerIdle
    /\ SweepIdle
    /\ ThresholdIdle
    /\ NarratorIdle
    /\ StoreIdle
    /\ ScannerIdle
    /\ city \in {"Hail", "Riyadh"}
    /\ hours_ago \in {3, 24, 25}
    /\ max_time_diff_minutes \in {3, 30}
    /\ sources = <<>>
    /\ idx = 0
    /\ queried = <<>>
    /\ results = <<>>
    /\ returned = NoReturn

(* the city check and the choice of the source order *)
fetch_wind_data ==
    /\ pc = "fetch"
    /\ IF city \notin WeatherStations
       THEN /\ returned' = CreateFallbackWindData
            /\ pc' = "fetched"
            /\ UNCHANGED <<sources, idx>>
       ELSE /\ sources' = SelectSources(hours_ago)
            /\ idx' = 1
            /\ pc' = "fetch_loop"
            /\ UNCHANGED returned
    /\ UNCHANGED <<city, hours_ago, max_time_diff_minutes, queried, results>>
    /\ UNCHANGED <<hotspot, wind_data, factories, ranked, sweepVars,
                   thresholdVars, narratorVars, storeVars, scannerVars>>

(* one iteration of the loop; the last one also resolves the candidates *)
query_source ==
    /\ pc = "fetch_loop"
    /\ \E out \in SourceOutcomes :
        LET source_name == sources[idx]
            time_diff == Abs(out.offset)
            accepted == out.kind = "data"
                        /\ WithinTolerance(time_diff, max_time_diff_minutes)
            wd == AcceptedWindData(out, source_name)
            results2 == IF accepted THEN Append(results, wd) ELSE results
        IN  /\ queried' = Append(queried, [ source |-> source_name, kind |-> out.kind,
                                             offset |-> out.offset,
                                             direction_deg |-> out.direction_deg,
                                             speed_ms |-> out.speed_ms ])
            /\ IF out.kind = "raise" /\ ~Caught(out.kind)
               THEN /\ returned' = Raised
                    /\ pc' = "fetched"
                    /\ UNCHANGED <<idx, results>>
               ELSE /\ results' = results2
                    /\ IF accepted /\ EarlyExit(time_diff)
                       THEN /\ returned' = wd
                            /\ pc' = "fetched"
                            /\ UNCHANGED idx
                       ELSE IF idx = Len(sources)
                       THEN /\ returned' = ResolveResults(results2)
                            /\ pc' = "fetched"
                            /\ idx' = idx + 1
                       ELSE /\ idx' = idx + 1
                            /\ UNCHANGED <<returned, pc>>
    /\ UNCHANGED <<city, hours_ago, max_time_diff_minutes, sources>>
    /\ UNCHANGED <<hotspot, wind_data, factories, ranked, sweepVars,
                   thresholdVars, narratorVars, storeVars, scannerVars>>

NextFetch == fetch_wind_data \/ query_source

SpecFetch == InitFetch /\ [][NextFetch]_vars

----------------------------------------------------------------------------
(* Claims about the wind resolver *)

QueriedSources == [ i \in DOMAIN queried |-> queried[i].source ]

AcceptedQuery(q) ==
    q.kind = "data" /\ Abs(q.offset) <= max_time_diff_minutes * 60

(* C9: as soon as a source returns an accepted observation no more than 5  *)
(* minutes from the target, that observation is returned, no later source  *)
(* is queried and each earlier source has been queried exactly once.       *)
C9_EarlyExit ==
    \A i \in DOMAIN queried :
        (AcceptedQuery(queried[i]) /\ Abs(queried[i].offset) <= 5 * 60) =>
            /\ pc = "fetched"
            /\ i = Len(queried)
            /\ returned.outcome = "returned"
            /\ returned.source = queried[i].source
            /\ returned.observation_time = queried[i].offset
            /\ returned.direction_deg = queried[i].direction_deg
            /\ returned.speed_ms = queried[i].speed_ms
            /\ QueriedSources = SubSeq(sources, 1, i)

C9_Witness ==
    /\ pc = "fetched"
    /\ Len(queried) = 2
    /\ Len(sources) = 4
    /\ AcceptedQuery(queried[1]) /\ queried[1].offset = 302
    /\ results[1].time_difference_minutes = 50
    /\ AcceptedQuery(queried[2]) /\ queried[2].offset = -240
    /\ returned.source = sources[2]

(* C10: a source that raises, times out or returns no data does not stop   *)
(* the resolution: every source after it is still queried unless an early  *)
(* exit occurs, and fetch_wind_data never raises because of it.            *)
EarlyExited ==
    /\ queried # <<>>
    /\ AcceptedQuery(queried[Len(queried)])
    /\ Abs(queried[Len(queried)].offset) <= 5 * 60

C10_FailuresSkipped ==
    /\ returned.outcome # "raised"
    /\ QueriedSources = SubSeq(sources, 1, Len(queried))
    /\ (pc = "fetched" /\ city \in WeatherStations /\ ~EarlyExited)
          => QueriedSources = sources
    /\ \A i \in DOMAIN queried :
          (queried[i].kind \in {"raise", "none"} /\ i < Len(sources))
            => (pc = "fetch_loop" \/ Len(queried) > i)

C10_Witness ==
    /\ pc = "fetched"
    /\ Len(queried) = 4
    /\ queried[1].kind = "raise"
    /\ queried[2].kind = "none"
    /\ queried[3].kind = "data" /\ queried[3].offset = 960
    /\ queried[4].kind = "raise"
    /\ returned.outcome = "returned"
    /\ returned.source = sources[3]

(* C11: for a known city the fallback observation (direction 0, speed 0,  *)
(* confidence 0, cardinal UNKNOWN, with a warning) is returned if and only *)
(* if no queried source gave an observation within the tolerance; every    *)
(* result that is neither fallback nor interpolated has                    *)
(* time_difference_minutes <= max_time_diff_minutes and confidence >= 10.  *)
C11_FallbackIffNothingAccepted ==
    (pc = "fetched" /\ city \in WeatherStations) =>
        /\ returned.outcome = "returned"
        /\ (returned.source = "fallback")
              <=> ~(\E i \in DOMAIN queried : AcceptedQuery(queried[i]))
        /\ returned.source = "fallback" =>
              /\ returned.direction_deg = 0
              /\ returned.speed_ms = 0
              /\ returned.confidence = 0
              /\ returned.direction_cardinal = "UNKNOWN"
              /\ returned.warning # ""
        /\ returned.source \notin {"fallback", "interpolated"} =>
              /\ returned.time_difference_minutes <= max_time_diff_minutes * 10
              /\ returned.confidence >= 10

C11_Witness ==
    /\ pc = "fetched"
    /\ city \in WeatherStations
    /\ Len(queried) = 4
    /\ queried[1].kind = "data" /\ queried[1].offset = 1830
    /\ queried[2].kind = "none"
    /\ queried[3].kind = "raise"
    /\ queried[4].kind = "data" /\ queried[4].offset = 1830
    /\ max_time_diff_minutes = 30
    /\ returned.source = "fallback"
    /\ returned.warning # ""

(* C12: the interpolated direction of two observations straddling the      *)
(* target lies in [0, 360) and on the shorter arc between their            *)
(* directions; 350 and 10 at weight 0.5 give 0, not 180, whichever of the  *)
(* two is the earlier observation.                                         *)
ArcBetween(x, y) == Min(Abs(x - y), FullCircle - Abs(x - y))

ClosestBefore(i) ==
    /\ results[i].observation_time <= 0
    /\ \A k \in DOMAIN results :
          results[k].observation_time <= 0
            => results[k].observation_time <= results[i].observation_time

ClosestAfter(j) ==
    /\ results[j].observation_time > 0
    /\ \A k \in DOMAIN results :
          results[k].observation_time > 0
            => results[k].observation_time >= results[j].observation_time

C12_CircularInterpolation ==
    (pc = "fetched" /\ returned.outcome = "returned" /\ returned.source = "interpolated") =>
        \E i, j \in DOMAIN results :
            LET b == results[i]
                a == results[j]
            IN  /\ ClosestBefore(i) /\ ClosestAfter(j)
                /\ returned.direction_deg >= 0 /\ returned.direction_deg < FullCircle
                /\ ArcBetween(b.direction_deg, returned.direction_deg)
                     + ArcBetween(returned.direction_deg, a.direction_deg)
                     = ArcBetween(b.direction_deg, a.direction_deg)
                /\ ({b.direction_deg, a.direction_deg} = {3500, 100}
                      /\ a.observation_time = 0 - b.observation_time)
                     => returned.direction_deg = 0

C12_Witness ==
    /\ pc = "fetched"
    /\ returned.outcome = "returned"
    /\ returned.source = "interpolated"
    /\ returned.direction_deg = 0
    /\ Len(results) = 2
    /\ results[1].observation_time = 960 /\ results[1].direction_deg = 3500
    /\ results[2].observation_time = -960 /\ results[2].direction_deg = 100

----------------------------------------------------------------------------
(* The narrator as a state machine: one call of ai_analysis on the         *)
(* violation whose factories the scorer ranked.                            *)

InitNarrator ==
    /\ pc = "narrate"
    /\ ScorerIdle
    /\ SweepIdle
    /\ ThresholdIdle
    /\ FetchIdle
    /\ StoreIdle
    /\ ScannerIdle
    /\ \E fs \in FactoryLists, g \in NarratorGases, w \in NarratorWinds :
          violation_data =
            [ nearby_factories |->
                SortedByConfidence(
                    ScoreAll([ i \in DOMAIN fs |-> Unscored(fs[i]) ], [ gas |-> g ], w)),
              gas |-> g,
              wind |-> w ]
    /\ language \in Languages
    /\ model_configured \in BOOLEAN
    /\ model_calls = 0
    /\ model_outcome = "not_called"
    /\ prompt_sent = NoPrompt
    /\ analysis = NoAnalysis

ai_analysis ==
    /\ pc = "narrate"
    /\ pc' = "narrated"
    /\ \E behaviour \in ModelBehaviours, image \in BOOLEAN :
          IF InconclusiveGate(violation_data.nearby_factories) \/ ~model_configured
          THEN /\ analysis' = RuleBasedAnalysis(violation_data, language)
               /\ UNCHANGED <<model_calls, model_outcome, prompt_sent>>
          ELSE IF PromptRaises(violation_data)
          THEN /\ analysis' = RuleBasedAnalysis(violation_data, language)
               /\ UNCHANGED <<model_calls, model_outcome, prompt_sent>>
          ELSE /\ prompt_sent' = BuildPrompt(violation_data, language, image)
               /\ model_calls' = model_calls + 1
               /\ model_outcome' = behaviour
               /\ analysis' = IF behaviour = "raise"
                              THEN RuleBasedAnalysis(violation_data, language)
                              ELSE Narrative("generated", language)
    /\ UNCHANGED <<violation_data, language, model_configured>>
    /\ UNCHANGED <<hotspot, wind_data, factories, ranked, sweepVars, thresholdVars,
                   fetchVars, storeVars, scannerVars>>

SpecNarrator == InitNarrator /\ [][ai_analysis]_vars

RuleBasedScenarios ==
    { "no_factories", "gas_missing", "no_emission_match", "no_clear_source",
      "most_likely_source", "analysis_error" }

Narrated == pc = "narrated"

(* C13: when the factory list is non-empty and holds no factory that is    *)
(* likely_upwind and none with confidence >= 40, the generative model is   *)
(* never invoked and the text returned is the rule-based narrative.        *)
C13_InconclusiveGate ==
    (/\ Narrated
     /\ violation_data.nearby_factories # <<>>
     /\ \A i \in DOMAIN violation_data.nearby_factories :
          /\ ~violation_data.nearby_factories[i].likely_upwind
          /\ violation_data.nearby_factories[i].confidence < 400000000)
    => /\ model_calls = 0
       /\ model_outcome = "not_called"
       /\ prompt_sent = NoPrompt
       /\ analysis.scenario \in RuleBasedScenarios
       /\ analysis = RuleBasedAnalysis(violation_data, language)

C13_Witness ==
    /\ Narrated
    /\ model_configured
    /\ ~PromptRaises(violation_data)
    /\ Len(violation_data.nearby_factories) = 2
    /\ \A i \in DOMAIN violation_data.nearby_factories :
          /\ ~violation_data.nearby_factories[i].likely_upwind
          /\ violation_data.nearby_factories[i].confidence < 400000000
          /\ violation_data.nearby_factories[i].confidence >= 300000000
    /\ model_calls = 0
    /\ analysis.scenario = "no_clear_source"

(* the rule-based narrative formats the wind direction of a violation that *)
(* has factories, a gas and a candidate; a direction of None raises there  *)
RuleBasedRaises ==
    /\ violation_data.nearby_factories # <<>>
    /\ violation_data.gas # ""
    /\ \E i \in DOMAIN violation_data.nearby_factories :
          violation_data.gas \in violation_data.nearby_factories[i].emissions
    /\ violation_data.wind.direction_deg = None

(* C14: ai_analysis always returns a text; with no model configured, a     *)
(* failing model call or a failing prompt construction the text is the     *)
(* rule-based narrative; when the rule-based narrative hits an internal    *)
(* exception the text is the analysis-error message in the active language *)
C14_AlwaysReturnsText ==
    Narrated =>
        /\ analysis.scenario \in RuleBasedScenarios \cup {"generated"}
        /\ (~model_configured \/ model_outcome = "raise" \/ PromptRaises(violation_data))
              => analysis.scenario \in RuleBasedScenarios
        /\ (analysis.scenario \in RuleBasedScenarios /\ RuleBasedRaises)
              => (analysis.scenario = "analysis_error" /\ analysis.lang = language)
        /\ analysis.scenario = "analysis_error" => analysis.lang = language

C14_Witness ==
    /\ Narrated
    /\ model_configured
    /\ ~InconclusiveGate(violation_data.nearby_factories)
    /\ RuleBasedRaises
    /\ language = "ar"
    /\ analysis.scenario = "analysis_error"
    /\ analysis.lang = "ar"

(* C15: with zero factories the rule-based narrative is the 'no factories  *)
(* found' message in the requested language, whatever the gas (missing or  *)
(* not) and the wind.                                                      *)
C15_NoFactoriesFirst ==
    (/\ Narrated
     /\ violation_data.nearby_factories = <<>>
     /\ analysis.scenario # "generated")
    => /\ analysis.scenario = "no_factories"
       /\ analysis.lang = language

C15_Witness ==
    /\ Narrated
    /\ violation_data.nearby_factories = <<>>
    /\ violation_data.gas = ""
    /\ violation_data.wind.direction_deg = None
    /\ language = "ar"
    /\ analysis.scenario = "no_factories"
    /\ analysis.lang = "ar"

OtherLanguage == IF language = "ar" THEN "en" ELSE "ar"

(* C16: for the same violation the rule-based narrative states the same    *)
(* scenario, the same top factory, the same confidence tier and the same   *)
(* alternative sources in Arabic as in English.                            *)
C16_LanguageParity ==
    (Narrated /\ analysis.scenario \in RuleBasedScenarios) =>
        LET other == RuleBasedAnalysis(violation_data, OtherLanguage)
        IN  /\ analysis.lang = language
            /\ other.lang = OtherLanguage
            /\ other.scenario = analysis.scenario
            /\ other.top = analysis.top
            /\ other.tier = analysis.tier
            /\ other.alternatives = analysis.alternatives

C16_Witness ==
    /\ Narrated
    /\ language = "ar"
    /\ analysis.lang = "ar"
    /\ analysis.scenario = "most_likely_source"
    /\ analysis.top = "E"
    /\ analysis.tier = "MEDIUM"
    /\ analysis.alternatives = <<"F">>

----------------------------------------------------------------------------
(* The violation store as a state machine: calls of save_violation,        *)
(* delete_violation and get_violation_by_id, one at a time, on a recorder  *)
(* constructed over an empty store or over one that earlier runs filled.   *)

(* the ids a caller holds: those the saves returned, and one no record has *)
KnownIds == { w.id : w \in saved } \cup { FullId(0, "Hail", "O3") }

InitStore ==
    /\ pc = "store"
    /\ ScorerIdle
    /\ SweepIdle
    /\ ThresholdIdle
    /\ FetchIdle
    /\ NarratorIdle
    /\ ScannerIdle
    /\ use_firestore \in BOOLEAN
    /\ writable \in BOOLEAN
    /\ use_firestore => writable
    /\ stored \in { <<>>, ExistingRecords }
    /\ now = 0
    /\ calls = 0
    /\ last_call = NoCall
    /\ saved = {}
    /\ saver = <<>>

save_violation ==
    /\ pc = "store"
    /\ calls < MaxCalls
    /\ \E vd \in ViolationInputs, elapsed \in {1, 2} :
          LET t == now + elapsed
              existing_id == ViolationExists(stored, vd.city, vd.gas,
                                             vd.timestamp_ksa, DedupLimit)
              record == BuildRecord(vd, t)
              triple_stored ==
                  \E k \in DOMAIN stored :
                      /\ stored[k].city = vd.city
                      /\ stored[k].gas = vd.gas
                      /\ stored[k].satellite_timestamp = vd.timestamp_ksa
              call == [ NoCall EXCEPT !.op = "save", !.input = vd,
                                      !.triple_stored = triple_stored ]
          IN  /\ now' = t
              /\ IF ~writable
                 THEN /\ last_call' = call
                      /\ UNCHANGED <<stored, saved>>
                 ELSE IF existing_id # NoId
                 THEN /\ last_call' = [ call EXCEPT !.id = existing_id, !.ok = TRUE ]
                      /\ saved' = saved \cup { [ id |-> existing_id, input |-> vd ] }
                      /\ UNCHANGED stored
                 ELSE /\ stored' = IF use_firestore
                                   THEN SaveToFirestore(stored, record)
                                   ELSE SaveToLocal(stored, record)
                      /\ last_call' = [ call EXCEPT !.id = record.id, !.wrote = TRUE,
                                                    !.ok = TRUE ]
                      /\ saved' = saved \cup { [ id |-> record.id, input |-> vd ] }
    /\ calls' = calls + 1
    /\ UNCHANGED <<pc, use_firestore, writable, saver>>
    /\ UNCHANGED <<hotspot, wind_data, factories, ranked, sweepVars, thresholdVars,
                   fetchVars, narratorVars, scannerVars>>

delete_violation ==
    /\ pc = "store"
    /\ calls < MaxCalls
    /\ \E violation_id \in KnownIds :
          LET call == [ NoCall EXCEPT !.op = "delete", !.id = violation_id ]
          IN  IF use_firestore
              THEN /\ stored' = DeleteRecords(stored, violation_id)
                   /\ last_call' = [ call EXCEPT !.ok = TRUE ]
                   /\ saved' = { w \in saved : w.id # violation_id }
              ELSE IF GetViolationById(stored, violation_id) = NoRecord
              THEN /\ last_call' = call
                   /\ UNCHANGED <<stored, saved>>
              ELSE /\ stored' = DeleteRecords(stored, violation_id)
                   /\ last_call' = [ call EXCEPT !.ok = TRUE ]
                   /\ saved' = { w \in saved : w.id # violation_id }
    /\ calls' = calls + 1
    /\ UNCHANGED <<pc, use_firestore, writable, now, saver>>
    /\ UNCHANGED <<hotspot, wind_data, factories, ranked, sweepVars, thresholdVars,
                   fetchVars, narratorVars, scannerVars>>

get_violation_by_id ==
    /\ pc = "store"
    /\ \E violation_id \in KnownIds :
          LET found == GetViolationById(stored, violation_id)
          IN  last_call' = [ NoCall EXCEPT !.op = "get", !.id = violation_id,
                                           !.found = found, !.ok = found # NoRecord ]
    /\ UNCHANGED <<pc, use_firestore, writable, stored, now, calls, saved, saver>>
    /\ UNCHANGED <<hotspot, wind_data, factories, ranked, sweepVars, thresholdVars,
                   fetchVars, narratorVars, scannerVars>>

NextStore == save_violation \/ delete_violation \/ get_violation_by_id

SpecStore == InitStore /\ [][NextStore]_vars

SameTriple(r, q) ==
    /\ r.city = q.city
    /\ r.gas = q.gas
    /\ r.satellite_timestamp = q.satellite_timestamp

(* C18: after any sequence of save_violation and delete_violation calls    *)
(* made one at a time the store holds at most one record per (city, gas,   *)
(* satellite_timestamp), however many records it holds; a save whose       *)
(* triple is already stored writes nothing and returns the stored record's *)
(* id.                                                                     *)
C18_OneRecordPerTriple ==
    pc = "store" =>
        /\ \A i, j \in DOMAIN stored :
              SameTriple(stored[i], stored[j]) => i = j
        /\ (last_call.op = "save" /\ last_call.triple_stored /\ writable) =>
              /\ ~last_call.wrote
              /\ \E k \in DOMAIN stored :
                    /\ stored[k].id = last_call.id
                    /\ stored[k].city = last_call.input.city
                    /\ stored[k].gas = last_call.input.gas
                    /\ stored[k].satellite_timestamp = last_call.input.timestamp_ksa

(* C19: get_violation_by_id with the id a successful save_violation        *)
(* returned gives a record with the gas, severity and percentage_over of   *)
(* that save's input and with its first five factories in order, also      *)
(* after any other saves, those of the same city and gas within the same   *)
(* second included.                                                        *)
C19_RoundTrip ==
    pc = "store" =>
        \A w \in saved :
            LET record == GetViolationById(stored, w.id)
                n == Len(w.input.nearby_factories)
            IN  /\ record # NoRecord
                /\ record.gas = w.input.gas
                /\ record.severity = w.input.severity
                /\ record.percentage_over = w.input.percentage_over
                /\ record.nearby_factories
                     = SubSeq(w.input.nearby_factories, 1, IF n < 5 THEN n ELSE 5)

(* C20: a stored record is not changed by a later save_violation, in       *)
(* either backend, and leaves the store only through delete_violation      *)
(* called with its id.                                                     *)
C20_RecordsImmutable ==
    [][ \A k \in DOMAIN stored :
            \/ \E j \in DOMAIN stored' : stored'[j] = stored[k]
            \/ last_call'.op = "delete" /\ last_call'.id = stored[k].id ]_vars

(* the smallest time_difference_minutes among the accepted candidates *)
SmallestTimeDiff ==
    CHOOSE d \in { results[i].time_difference_minutes : i \in DOMAIN results } :
        \A k \in DOMAIN results : results[k].time_difference_minutes >= d

(* two accepted candidates, none other closer than either, straddle the    *)
(* target: one observed at or before it, one after                         *)
TwoClosestStraddle ==
    \E i, j \in DOMAIN results :
        /\ i # j
        /\ results[i].observation_time <= 0
        /\ results[j].observation_time > 0
        /\ \A k \in DOMAIN results \ {i, j} :
              /\ results[k].time_difference_minutes >= results[i].time_difference_minutes
              /\ results[k].time_difference_minutes >= results[j].time_difference_minutes

(* at least one accepted candidate on each side of the target *)
SomeBeforeSomeAfter ==
    /\ \E i \in DOMAIN results : results[i].observation_time <= 0
    /\ \E j \in DOMAIN results : results[j].observation_time > 0

(* the result is an accepted candidate, unchanged, none having a smaller   *)
(* time_difference_minutes                                                 *)
ClosestReturnedUnchanged ==
    \E i \in DOMAIN results :
        /\ returned = results[i]
        /\ results[i].time_difference_minutes = SmallestTimeDiff

InterpolatedReturned ==
    /\ returned.outcome = "returned"
    /\ returned.source = "interpolated"
    /\ returned.confidence = 85

(* C22 as stated: interpolation exactly when the two closest accepted      *)
(* candidates straddle the target and the smallest time difference exceeds *)
(* 15 minutes, with source 'interpolated' and confidence 85; otherwise the *)
(* closest candidate is returned unchanged.                                *)
C22_Original ==
    (pc = "fetched" /\ results # <<>>) =>
        IF TwoClosestStraddle /\ SmallestTimeDiff > 150
        THEN InterpolatedReturned
        ELSE ClosestReturnedUnchanged

(* C22 amended: interpolation exactly when at least two candidates were    *)
(* accepted, the smallest time_difference_minutes exceeds 15 and some      *)
(* accepted candidate lies on each side of the target, whether or not      *)
(* those are the two closest; otherwise a closest candidate is returned    *)
(* unchanged.                                                              *)
C22_Amended ==
    (pc = "fetched" /\ results # <<>>) =>
        IF Len(results) >= 2 /\ SmallestTimeDiff > 150 /\ SomeBeforeSomeAfter
        THEN /\ InterpolatedReturned
             /\ returned.time_difference_minutes = 0
             /\ \E i, j \in DOMAIN results :
                   /\ ClosestBefore(i) /\ ClosestAfter(j)
                   /\ returned.direction_deg
                        = InterpolateDirection(results[i], results[j])
        ELSE ClosestReturnedUnchanged

C22_Witness ==
    /\ pc = "fetched"
    /\ Len(results) = 3
    /\ results[1].observation_time = -960
    /\ results[2].observation_time = -1260
    /\ results[3].observation_time = 1500
    /\ ~TwoClosestStraddle
    /\ InterpolatedReturned

(* the order the claim gives for the age of target_time: realtime is       *)
(* openweather, high-res tomorrow_io, airport metar, historical weatherapi *)
(* and archival visualcrossing                                             *)
ClaimedOrder ==
    IF hours_ago <= 3 THEN <<"openweather", "tomorrow_io", "metar", "weatherapi">>
    ELSE IF hours_ago <= 24 THEN <<"tomorrow_io", "weatherapi", "openweather", "metar">>
    ELSE <<"weatherapi", "visualcrossing", "metar">>

(* C24: the sources are queried strictly in the order fixed by the age of  *)
(* target_time (at most 3 hours, at most 24 hours, older); no source       *)
(* outside the selected list is queried and none is queried twice.         *)
C24_SourceOrder ==
    /\ Len(queried) <= Len(ClaimedOrder)
    /\ \A i \in DOMAIN queried : queried[i].source = ClaimedOrder[i]
    /\ \A i, j \in DOMAIN queried : queried[i].source = queried[j].source => i = j
    /\ city \notin WeatherStations => queried = <<>>

C24_Witness ==
    /\ pc = "fetched"
    /\ hours_ago = 24
    /\ Len(queried) = 4
    /\ queried[1].source = "tomorrow_io"
    /\ queried[2].source = "weatherapi"
    /\ queried[3].source = "openweather"
    /\ queried[4].source = "metar"

----------------------------------------------------------------------------
(* Claims about the rule-based source selection *)

RuleBasedReturned == Narrated /\ analysis.scenario \in RuleBasedScenarios

EmitsDetectedGas(f) == violation_data.gas \in f.emissions

SomeEmitter ==
    \E i \in DOMAIN violation_data.nearby_factories :
        EmitsDetectedGas(violation_data.nearby_factories[i])

(* the position of the first upwind emitter if there is one, else of the   *)
(* first emitter                                                           *)
IsTopCandidate(i) ==
    LET fs == violation_data.nearby_factories
        upwindEmitter(k) == EmitsDetectedGas(fs[k]) /\ fs[k].likely_upwind
    IN  IF \E k \in DOMAIN fs : upwindEmitter(k)
        THEN upwindEmitter(i) /\ \A k \in 1..(i - 1) : ~upwindEmitter(k)
        ELSE EmitsDetectedGas(fs[i]) /\ \A k \in 1..(i - 1) : ~EmitsDetectedGas(fs[k])

NamesAnEmitter(n) ==
    \E i \in DOMAIN violation_data.nearby_factories :
        /\ violation_data.nearby_factories[i].name = n
        /\ EmitsDetectedGas(violation_data.nearby_factories[i])

(* C25: in the rule-based narrative of a violation with a gas and at least *)
(* one emitter, the top candidate is the first upwind emitter if any, else *)
(* the first emitter; the narrative is the NO CLEAR SOURCE report exactly  *)
(* when that candidate is not upwind and has confidence < 40 and the MOST  *)
(* LIKELY SOURCE report otherwise, and a MOST LIKELY SOURCE report names   *)
(* as source or alternative only factories that emit the gas.              *)
C25_RuleBasedSelection ==
    (RuleBasedReturned /\ violation_data.gas # "" /\ SomeEmitter) =>
        \E i \in DOMAIN violation_data.nearby_factories :
            LET top == violation_data.nearby_factories[i] IN
            /\ IsTopCandidate(i)
            /\ analysis.top = top.name
            /\ IF ~top.likely_upwind /\ top.confidence < 400000000
               THEN analysis.scenario = "no_clear_source"
               ELSE /\ analysis.scenario = "most_likely_source"
                    /\ NamesAnEmitter(analysis.top)
                    /\ \A k \in DOMAIN analysis.alternatives :
                          NamesAnEmitter(analysis.alternatives[k])

(* C28: whenever the inconclusive gate fires and the violation names a     *)
(* gas, the narrative is the no-emission-match or the NO CLEAR SOURCE      *)
(* report, never the MOST LIKELY SOURCE report.                            *)
C28_GateGivesNoClearSource ==
    (/\ Narrated
     /\ InconclusiveGate(violation_data.nearby_factories)
     /\ violation_data.gas # "")
    => /\ analysis.scenario \in {"no_emission_match", "no_clear_source"}
       /\ analysis.scenario # "most_likely_source"

----------------------------------------------------------------------------
(* Claims about the ranking of emitters and non-emitters *)

(* C27 as stated: in the ranked output no factory that does not emit the   *)
(* detected gas stands before a factory that emits it, in the normal and   *)
(* in the fallback-ranking path.                                           *)
C27_Original ==
    Scored =>
        \A i, j \in DOMAIN ranked :
            (~Emits(ranked[i]) /\ Emits(ranked[j])) => j < i

(* C27 amended: when some factory is upwind every emitter stands before    *)
(* every non-emitter and has a greater confidence; in the fallback-ranking *)
(* path a non-emitter stands before an emitter only if its distance score  *)
(* is at least 9 times the emitter's.                                      *)
C27_Amended ==
    Scored =>
        \A i, j \in DOMAIN ranked :
            (~Emits(ranked[i]) /\ Emits(ranked[j])) =>
                IF NoFactoryWithin30
                THEN i < j => ranked[i].scores.distance >= 9 * ranked[j].scores.distance
                ELSE j < i /\ ranked[j].confidence > ranked[i].confidence

C27_Witness ==
    /\ Scored
    /\ NoFactoryWithin30
    /\ Len(ranked) = 3
    /\ ~Emits(ranked[1]) /\ ranked[1].fallback_ranking = "no_emission_match"
    /\ Emits(ranked[2]) /\ ranked[2].fallback_ranking = "emission_match"
    /\ ranked[1].confidence > ranked[2].confidence
    /\ ranked[2].confidence > 0

----------------------------------------------------------------------------
(* _calculate_confidence swept over the time difference, one source at a   *)
(* time                                                                    *)

InitConfidence ==
    /\ pc = "confidence"
    /\ ScorerIdle
    /\ ThresholdIdle
    /\ FetchIdle
    /\ NarratorIdle
    /\ StoreIdle
    /\ ScannerIdle
    /\ angle_diff = 0 /\ wind_score = 0
    /\ label_bearing = 0 /\ analyzer_label = "" /\ fetcher_label = ""
    /\ cand_source \in { "saudi_ncmc", "metar", "tomorrow_io", "openweather",
                          "weatherapi", "visualcrossing", "interpolated", "other" }
    /\ cand_time_diff = 0
    /\ cand_confidence = CalculateConfidence(0, cand_source)

SweepConfidence ==
    /\ pc = "confidence"
    /\ cand_time_diff < MaxTimeDiff
    /\ cand_time_diff' = cand_time_diff + 1
    /\ cand_confidence' = CalculateConfidence(cand_time_diff', cand_source)
    /\ UNCHANGED <<cand_source, angle_diff, wind_score>>
    /\ UNCHANGED <<label_bearing, analyzer_label, fetcher_label>>
    /\ UNCHANGED <<scorerVars, thresholdVars, fetchVars, narratorVars, storeVars,
                   scannerVars>>

SpecConfidence == InitConfidence /\ [][SweepConfidence]_vars

(* the penalty of the claim, for a time difference in seconds *)
ClaimedPenalty(seconds) ==
    IF seconds <= 5 * 60 THEN 0
    ELSE IF seconds <= 15 * 60 THEN 5
    ELSE IF seconds <= 30 * 60 THEN 10
    ELSE IF seconds <= 60 * 60 THEN 20
    ELSE 40

(* C23: the confidence of a candidate is max(10, base - penalty) with the  *)
(* base one of 100, 95, 92, 90, 85 for a known source and 50 for an        *)
(* unknown one, the same base at every time difference, and the penalty 0, *)
(* 5, 10, 20, 40 for <= 5, <= 15, <= 30, <= 60, > 60 minutes; it never     *)
(* increases as the time difference grows.                                 *)
C23_ConfidenceFormula ==
    /\ [](pc = "confidence" =>
            \E base \in IF cand_source = "other" THEN {50} ELSE {100, 95, 92, 90, 85} :
                cand_confidence = Max(10, base - ClaimedPenalty(cand_time_diff)))
    /\ [][/\ cand_confidence' + ClaimedPenalty(cand_time_diff')
               = cand_confidence + ClaimedPenalty(cand_time_diff)
          /\ cand_time_diff' > cand_time_diff => cand_confidence' <= cand_confidence]_vars

C23_Witness ==
    /\ pc = "confidence"
    /\ cand_source = "other"
    /\ cand_time_diff = 60 * 60 + 1
    /\ cand_confidence = 10

----------------------------------------------------------------------------
(* The two cardinal-label functions swept over the bearings 0.00 .. 359.99 *)
(* degrees; bearings are in 0.01 degree here, so that the bucket           *)
(* boundaries 11.25, 33.75, ... are among them                             *)

(* Python's round(num / den) for num >= 0: to the nearest integer, a tie   *)
(* to the even one                                                         *)
RoundHalfEven(num, den) ==
    LET q == num \div den
        r == num % den
    IN  IF 2 * r < den THEN q
        ELSE IF 2 * r > den THEN q + 1
        ELSE IF q % 2 = 0 THEN q ELSE q + 1

(* analyzer: directions[int((bearing + 11.25) / 22.5) % 16] *)
GetDirectionRelativeToHotspot(bearing) ==
    Directions[(((bearing + 1125) \div 2250) % 16) + 1]

(* wind fetcher: directions[round(degrees / 22.5) % 16] *)
DegreesToCardinalExact(degrees) ==
    Directions[(RoundHalfEven(degrees, 2250) % 16) + 1]

InitCardinal ==
    /\ pc = "cardinal"
    /\ ScorerIdle
    /\ ThresholdIdle
    /\ FetchIdle
    /\ NarratorIdle
    /\ StoreIdle
    /\ ScannerIdle
    /\ angle_diff = 0 /\ wind_score = 0
    /\ cand_source = "" /\ cand_time_diff = 0 /\ cand_confidence = 0
    /\ label_bearing = 0
    /\ analyzer_label = GetDirectionRelativeToHotspot(0)
    /\ fetcher_label = DegreesToCardinalExact(0)

SweepCardinal ==
    /\ pc = "cardinal"
    /\ label_bearing + 1 < 10 * FullCircle
    /\ label_bearing' = label_bearing + 1
    /\ analyzer_label' = GetDirectionRelativeToHotspot(label_bearing')
    /\ fetcher_label' = DegreesToCardinalExact(label_bearing')
    /\ UNCHANGED <<angle_diff, wind_score>>
    /\ UNCHANGED <<cand_source, cand_time_diff, cand_confidence>>
    /\ UNCHANGED <<scorerVars, thresholdVars, fetchVars, narratorVars, storeVars,
                   scannerVars>>

SpecCardinal == InitCardinal /\ [][SweepCardinal]_vars

CompassLabels ==
    { "N", "NNE", "NE", "ENE", "E", "ESE", "SE", "SSE",
      "S", "SSW", "SW", "WSW", "W", "WNW", "NW", "NNW" }

(* the label of bucket floor((bearing + 11.25) / 22.5) mod 16 *)
BucketLabel(k) ==
    CASE k = 0 -> "N"    [] k = 1 -> "NNE"  [] k = 2 -> "NE"   [] k = 3 -> "ENE"
      [] k = 4 -> "E"    [] k = 5 -> "ESE"  [] k = 6 -> "SE"   [] k = 7 -> "SSE"
      [] k = 8 -> "S"    [] k = 9 -> "SSW"  [] k = 10 -> "SW"  [] k = 11 -> "WSW"
      [] k = 12 -> "W"   [] k = 13 -> "WNW" [] k = 14 -> "NW"  [] k = 15 -> "NNW"

(* C26: for every bearing in [0, 360) both cardinal-label functions return *)
(* one of the 16 compass labels, the same one, which is the label of       *)
(* bucket floor((bearing + 11.25) / 22.5) mod 16, also at the bucket       *)
(* boundaries 11.25, 33.75, 56.25, ...                                     *)
C26_CardinalLabelsAgree ==
    pc = "cardinal" =>
        /\ analyzer_label \in CompassLabels
        /\ fetcher_label \in CompassLabels
        /\ analyzer_label = fetcher_label
        /\ analyzer_label = BucketLabel(((label_bearing + 1125) \div 2250) % 16)

----------------------------------------------------------------------------
(* The regional scanner of background_scanner.py: scan_all_cities with the *)
(* recorder it was constructed with                                        *)

(* self.cities = list(config.CITIES.keys()) *)
Cities == <<"Hail">>

(* the gas_images a scan can end up with: the gases whose regional fetch   *)
(* gave an image, in the order of config.GAS_PRODUCTS.keys()               *)
ImageSets ==
    { SelectSeq(<<"NO2", "SO2", "CO", "HCHO", "CH4">>, LAMBDA g : g \in S) :
        S \in { T \in SUBSET DOMAIN GAS_PRODUCTS : Cardinality(T) <= MaxImages } }

(* what reduceRegion gave for a city and gas: no data (or an error), or a  *)
(* maximum: just below and at the threshold, at the critical threshold     *)
(* and, where the unit allows it, 0.05 percent below twice the threshold   *)
ScanStats(g) ==
    LET t == GAS_THRESHOLDS[g].column_threshold
        c == GAS_THRESHOLDS[g].critical_threshold
        values == { t - 1, t, c }
                  \cup (IF t >= 2000 THEN { 2 * t - t \div 2000 } ELSE {})
    IN  { [ success |-> FALSE, value |-> NoValue ] }
        \cup { [ success |-> TRUE, value |-> v ] : v \in values }

(* the dict extract_city_stats returns; percentage_over is                 *)
(* round(pct_over, 1), in 0.1 percent                                      *)
ExtractCityStats(g, st) ==
    IF ~st.success
    THEN [ success |-> FALSE, value |-> NoValue, threshold |-> 0,
           is_violation |-> FALSE, percentage_over |-> 0 ]
    ELSE LET threshold == IF g \in DOMAIN GAS_THRESHOLDS
                          THEN GAS_THRESHOLDS[g].column_threshold ELSE 0
             is_violation == IF threshold > 0 THEN st.value >= threshold ELSE FALSE
         IN  [ success |-> TRUE, value |-> st.value, threshold |-> threshold,
               is_violation |-> is_violation,
               percentage_over |->
                   IF threshold > 0 /\ is_violation
                   THEN RoundHalfEven((st.value - threshold) * 1000, threshold)
                   ELSE 0 ]

(* the violation dict of the loop body: its severity is                    *)
(* 'critical' if stats['percentage_over'] >= 100 else 'moderate', and its  *)
(* timestamp gas_timestamps[gas], the second of the fetch, the same for    *)
(* the gases of one scan                                                   *)
ScanViolation(c, g, stats) ==
    [ city |-> c, gas |-> g, value |-> stats.value, threshold |-> stats.threshold,
      percentage_over |-> stats.percentage_over,
      severity |-> IF stats.percentage_over >= 1000 THEN "critical" ELSE "moderate",
      timestamp_ksa |-> 1 ]

(* city_data['metrics'] once the gases of the city are done *)
CityMetrics(cd) ==
    LET RECURSIVE sum(_)
        sum(s) == IF s = <<>> THEN 0 ELSE Head(s) + sum(Tail(s))
        avg_threshold_pct ==
            IF cd.threshold_percentages = <<>> THEN 0
            ELSE sum(cd.threshold_percentages) \div Len(cd.threshold_percentages)
    IN  [ computed |-> TRUE,
          pollution_index |-> avg_threshold_pct,
          active_violations |-> Len(cd.violations),
          gases_monitored |-> cd.successful_gases,
          data_completeness |-> (cd.successful_gases * 100) \div Cardinality(DOMAIN GAS_PRODUCTS),
          avg_threshold_percentage |-> avg_threshold_pct ]

(* what the recorder's two calls can do: violation_exists answers from the *)
(* store, returns None after a failed query, or raises; save_violation     *)
(* runs, returns None after a failed write, or raises                      *)
RecorderOutcomes ==
    { [ exists |-> "raise", save |-> "not_called" ],
      [ exists |-> "none", save |-> "run" ],
      [ exists |-> "answer", save |-> "run" ],
      [ exists |-> "answer", save |-> "none" ],
      [ exists |-> "answer", save |-> "raise" ] }

(* except Exception of _record_violation *)
RecordingCaught_nothing(kind) == FALSE
RecordingCaught(kind) == TRUE

(* _record_violation on the records held, at clock t: the records left,    *)
(* whether an exception was raised inside it, and what the calls did; vd   *)
(* is violation_info, the dict it hands to save_violation                  *)
RecordViolation(violation, out, records, t) ==
    LET vd == [ city |-> violation.city, gas |-> violation.gas,
                timestamp_ksa |-> violation.timestamp_ksa,
                severity |-> violation.severity,
                percentage_over |-> violation.percentage_over,
                nearby_factories |-> <<>> ]
        existing == IF out.exists = "answer"
                    THEN ViolationExists(records, vd.city, vd.gas, vd.timestamp_ksa,
                                         DedupLimit)
                    ELSE NoId
        save_called == out.exists # "raise" /\ existing = NoId
        runs == save_called /\ out.save = "run" /\ writable
        existing_id == ViolationExists(records, vd.city, vd.gas, vd.timestamp_ksa,
                                       DedupLimit)
        record == BuildRecord(vd, t)
        writes == runs /\ existing_id = NoId
    IN  [ raised |-> out.exists = "raise" \/ (save_called /\ out.save = "raise"),
          stored |-> IF ~writes THEN records
                     ELSE IF use_firestore THEN SaveToFirestore(records, record)
                     ELSE SaveToLocal(records, record),
          log |-> [ gas |-> vd.gas, exists |-> out.exists, existing |-> existing,
                    save |-> IF save_called THEN out.save ELSE "not_called",
                    id |-> IF ~runs THEN NoId
                           ELSE IF existing_id # NoId THEN existing_id
                           ELSE record.id,
                    wrote |-> writes ] ]

(* _save_all_to_cache: with a Firestore client, one document for each city *)
(* that has data; a failed write is logged                                 *)
SaveAllToCache(docs, scanned, write_ok) ==
    IF ~use_firestore \/ ~write_ok THEN docs
    ELSE docs \o SelectSeq(scanned.cities,
                           LAMBDA cd : cd.metrics.data_completeness # 0)

(* the store may hold a record of the city and gas for the scan's          *)
(* timestamp, left by an earlier save                                      *)
InitScanner ==
    /\ pc = "scan"
    /\ ScorerIdle
    /\ SweepIdle
    /\ ThresholdIdle
    /\ FetchIdle
    /\ NarratorIdle
    /\ saver = <<>>
    /\ use_firestore \in BOOLEAN
    /\ writable \in BOOLEAN
    /\ use_firestore => writable
    /\ stored \in { <<>>, SubSeq(ExistingRecords, 1, 1) }
    /\ now = 0
    /\ calls = 0
    /\ last_call = NoCall
    /\ saved = {}
    /\ auto_record_violations \in BOOLEAN
    /\ gas_images = <<>>
    /\ scan_city = 0
    /\ scan_gas = 0
    /\ city_data = NoCityData
    /\ scan_results = EmptyResults
    /\ scan_outcome = "none"
    /\ recordings = <<>>
    /\ cache = <<>>

(* the fetch of the regional images, up to the start of the city loop *)
scan_all_cities ==
    /\ pc = "scan"
    /\ \E images \in ImageSets :
          /\ gas_images' = images
          /\ IF images = <<>>
             THEN /\ scan_results' = [ scan_results EXCEPT
                                         !.error = "No satellite data available" ]
                  /\ scan_outcome' = "returned"
                  /\ pc' = "scanned"
                  /\ UNCHANGED <<scan_city, scan_gas, city_data>>
             ELSE /\ scan_results' = [ scan_results EXCEPT
                                         !.gases_scanned = Len(images) ]
                  /\ scan_city' = 1
                  /\ scan_gas' = 1
                  /\ city_data' = [ NoCityData EXCEPT !.city = Cities[1] ]
                  /\ pc' = "scan_loop"
                  /\ UNCHANGED scan_outcome
    /\ UNCHANGED <<auto_record_violations, recordings, cache>>
    /\ UNCHANGED <<hotspot, wind_data, factories, ranked, sweepVars, thresholdVars,
                   fetchVars, narratorVars, storeVars>>

(* one pass of the inner loop: the statistics of a city and gas, the       *)
(* reading, the violation and its recording; the last pass of a city also  *)
(* closes the city, the last pass of all writes the cache and returns      *)
scan_city_gas ==
    /\ pc = "scan_loop"
    /\ \E st \in ScanStats(gas_images[scan_gas]) :
       \E out \in IF auto_record_violations
                     /\ ExtractCityStats(gas_images[scan_gas], st).is_violation
                  THEN RecorderOutcomes ELSE { [ exists |-> "", save |-> "" ] } :
       \E write_ok \in IF scan_gas = Len(gas_images) /\ scan_city = Len(Cities)
                       THEN BOOLEAN ELSE {TRUE} :
          LET c == Cities[scan_city]
              g == gas_images[scan_gas]
              stats == ExtractCityStats(g, st)
              detected == stats.success /\ stats.is_violation
              violation == ScanViolation(c, g, stats)
              recording == detected /\ auto_record_violations
              rec == RecordViolation(violation, out, stored, now + 1)
              escaped == recording /\ rec.raised /\ ~RecordingCaught("Exception")
              city_data2 ==
                  [ city_data EXCEPT
                      !.readings = Append(@, [ gas |-> g, success |-> stats.success,
                                               value |-> stats.value,
                                               is_violation |-> stats.is_violation,
                                               percentage_over |->
                                                   stats.percentage_over ]),
                      !.successful_gases = IF stats.success THEN @ + 1 ELSE @,
                      !.threshold_percentages =
                          IF stats.success /\ stats.threshold > 0
                          THEN Append(@, (stats.value * 1000) \div stats.threshold)
                          ELSE @,
                      !.violations = IF detected THEN Append(@, violation) ELSE @ ]
              results2 ==
                  [ scan_results EXCEPT
                      !.violations = IF detected THEN Append(@, violation) ELSE @ ]
              last_gas == scan_gas = Len(gas_images)
              last_city == scan_city = Len(Cities)
              closed == [ city_data2 EXCEPT !.metrics = CityMetrics(city_data2) ]
              results3 ==
                  [ results2 EXCEPT
                      !.cities = Append(@, closed),
                      !.cities_with_data =
                          IF city_data2.successful_gases > 0 THEN @ + 1 ELSE @ ]
          IN  /\ IF recording
                 THEN /\ stored' = rec.stored
                      /\ now' = now + 1
                      /\ recordings' = Append(recordings, rec.log)
                 ELSE UNCHANGED <<stored, now, recordings>>
              /\ IF escaped
                 THEN /\ scan_outcome' = "raised"
                      /\ pc' = "scanned"
                      /\ city_data' = city_data2
                      /\ scan_results' = results2
                      /\ UNCHANGED <<scan_city, scan_gas, cache>>
                 ELSE IF ~last_gas
                 THEN /\ scan_gas' = scan_gas + 1
                      /\ city_data' = city_data2
                      /\ scan_results' = results2
                      /\ UNCHANGED <<scan_city, scan_outcome, cache, pc>>
                 ELSE IF ~last_city
                 THEN /\ scan_city' = scan_city + 1
                      /\ scan_gas' = 1
                      /\ city_data' = [ NoCityData EXCEPT !.city = Cities[scan_city + 1] ]
                      /\ scan_results' = results3
                      /\ UNCHANGED <<scan_outcome, cache, pc>>
                 ELSE /\ city_data' = closed
                      /\ scan_results' = results3
                      /\ cache' = SaveAllToCache(cache, results3, write_ok)
                      /\ scan_outcome' = "returned"
                      /\ pc' = "scanned"
                      /\ scan_gas' = scan_gas + 1
                      /\ UNCHANGED scan_city
    /\ UNCHANGED <<auto_record_violations, gas_images>>
    /\ UNCHANGED <<use_firestore, writable, calls, last_call, saved, saver>>
    /\ UNCHANGED <<hotspot, wind_data, factories, ranked, sweepVars, thresholdVars,
                   fetchVars, narratorVars>>

NextScanner == scan_all_cities \/ scan_city_gas

SpecScanner == InitScanner /\ [][NextScanner]_vars

----------------------------------------------------------------------------
(* Claims about the regional scanner *)

ScanDone == pc = "scanned" /\ gas_images # <<>>

RECURSIVE Flatten(_)
Flatten(ss) == IF ss = <<>> THEN <<>> ELSE Head(ss) \o Flatten(Tail(ss))

(* the violations the readings of the scanned cities show, in scan order *)
DetectedViolations ==
    Flatten([ k \in DOMAIN scan_results.cities |->
                LET cd == scan_results.cities[k]
                    det == SelectSeq(cd.readings, LAMBDA r : r.is_violation)
                IN  [ i \in DOMAIN det |-> [ city |-> cd.city, gas |-> det[i].gas ] ] ])

ListedViolations ==
    [ i \in DOMAIN scan_results.violations |->
        [ city |-> scan_results.violations[i].city,
          gas |-> scan_results.violations[i].gas ] ]

(* C21: whatever the duplicate check and the save do for a violation       *)
(* (return None or raise), scan_all_cities does not raise, processes every *)
(* city and every gas it has an image for, and returns a result that lists *)
(* every detected violation; a save_violation on a non-writable store      *)
(* returns None and the store is left as it was.                           *)
C21_StorageFailuresNotFatal ==
    /\ [](scan_outcome # "raised")
    /\ [](ScanDone =>
            /\ scan_outcome = "returned"
            /\ Len(scan_results.cities) = Len(Cities)
            /\ \A k \in DOMAIN scan_results.cities :
                  /\ scan_results.cities[k].city = Cities[k]
                  /\ [ i \in DOMAIN scan_results.cities[k].readings |->
                         scan_results.cities[k].readings[i].gas ] = gas_images
            /\ ListedViolations = DetectedViolations)
    /\ [](\A i \in DOMAIN recordings :
            (recordings[i].save = "run" /\ ~writable) =>
                recordings[i].id = NoId /\ ~recordings[i].wrote)
    /\ [][~writable => stored' = stored]_vars

C21_Witness ==
    /\ ScanDone
    /\ scan_outcome = "returned"
    /\ ~writable
    /\ Len(recordings) = 2
    /\ recordings[1].exists = "raise"
    /\ recordings[2].save = "run"
    /\ recordings[2].id = NoId
    /\ Len(scan_results.violations) = 2

(* C29: the severity of every violation the scanner lists is the severity  *)
(* check_threshold_violation gives for the same gas and value.             *)
C29_SeverityAgrees ==
    \A i \in DOMAIN scan_results.violations :
        LET v == scan_results.violations[i]
        IN  v.severity = CheckThreshold(v.gas, v.value).severity

----------------------------------------------------------------------------
(* Two callers of save_violation on the local backend at the same time.    *)
(* The recorder takes no lock: each caller runs the duplicate check, then  *)
(* _save_to_local reads the file, appends, opens the file for writing      *)
(* (which empties it) and dumps its list.  An empty or unparsable file     *)
(* reads as the empty list.                                                *)

InitConcurrent ==
    /\ pc = "concurrent"
    /\ ScorerIdle
    /\ SweepIdle
    /\ ThresholdIdle
    /\ FetchIdle
    /\ NarratorIdle
    /\ ScannerIdle
    /\ use_firestore = FALSE
    /\ writable = TRUE
    /\ stored \in { <<>>, SubSeq(ExistingRecords, 1, 1) }
    /\ now = 0
    /\ calls = 0
    /\ last_call = NoCall
    /\ saved = {}
    /\ \E v1, v2 \in ViolationInputs :
          /\ <<v1.city, v1.gas, v1.timestamp_ksa>> # <<v2.city, v2.gas, v2.timestamp_ksa>>
          /\ saver = [ p \in {1, 2} |->
                         [ pc |-> "call", input |-> IF p = 1 THEN v1 ELSE v2,
                           record |-> NoRecord, records |-> <<>>,
                           clobbered |-> FALSE, id |-> NoId ] ]

(* save_violation up to the call of _save_to_local: the duplicate check    *)
(* on the file as it is, then the record with the id of the clock          *)
concurrent_save_violation ==
    /\ pc = "concurrent"
    /\ \E p \in DOMAIN saver, elapsed \in {1, 2} :
          LET vd == saver[p].input
              existing_id == ViolationExists(stored, vd.city, vd.gas,
                                             vd.timestamp_ksa, DedupLimit)
          IN  /\ saver[p].pc = "call"
              /\ IF existing_id # NoId
                 THEN /\ saver' = [ saver EXCEPT ![p].pc = "returned",
                                                 ![p].id = existing_id ]
                      /\ UNCHANGED now
                 ELSE /\ now' = now + elapsed
                      /\ saver' = [ saver EXCEPT ![p].pc = "built",
                                                 ![p].record = BuildRecord(vd, now') ]
    /\ UNCHANGED <<use_firestore, writable, stored, calls, last_call, saved>>
    /\ UNCHANGED <<scorerVars, sweepVars, thresholdVars, fetchVars, narratorVars,
                   scannerVars>>

(* records = self._load_local_records(); records.append(record) *)
concurrent_load_local_records ==
    /\ pc = "concurrent"
    /\ \E p \in DOMAIN saver :
          /\ saver[p].pc = "built"
          /\ saver' = [ saver EXCEPT ![p].pc = "loaded",
                                     ![p].records = Append(stored, saver[p].record) ]
    /\ UNCHANGED <<use_firestore, writable, stored, now, calls, last_call, saved>>
    /\ UNCHANGED <<scorerVars, sweepVars, thresholdVars, fetchVars, narratorVars,
                   scannerVars>>

(* open(self.records_file, 'w'): the file is emptied *)
concurrent_open_records_file ==
    /\ pc = "concurrent"
    /\ \E p \in DOMAIN saver :
          /\ saver[p].pc = "loaded"
          /\ stored' = <<>>
          /\ saver' = [ saver EXCEPT ![p].pc = "opened", ![p].clobbered = FALSE ]
    /\ UNCHANGED <<use_firestore, writable, now, calls, last_call, saved>>
    /\ UNCHANGED <<scorerVars, sweepVars, thresholdVars, fetchVars, narratorVars,
                   scannerVars>>

(* json.dump(records, f) and the return of the id.  A caller whose file    *)
(* was written by the other one since it opened it writes over the start   *)
(* of that text: the file then holds its own list or, where the other text *)
(* was longer, no parsable list                                            *)
concurrent_dump_records ==
    /\ pc = "concurrent"
    /\ \E p \in DOMAIN saver :
          /\ saver[p].pc = "opened"
          /\ stored' \in { saver[p].records }
                         \cup (IF saver[p].clobbered THEN { <<>> } ELSE {})
          /\ saver' = [ q \in DOMAIN saver |->
                          IF q = p
                          THEN [ saver[q] EXCEPT !.pc = "returned",
                                                 !.id = saver[q].record.id ]
                          ELSE IF saver[q].pc = "opened"
                          THEN [ saver[q] EXCEPT !.clobbered = TRUE ]
                          ELSE saver[q] ]
    /\ UNCHANGED <<use_firestore, writable, now, calls, last_call, saved>>
    /\ UNCHANGED <<scorerVars, sweepVars, thresholdVars, fetchVars, narratorVars,
                   scannerVars>>

NextConcurrent ==
    \/ concurrent_save_violation
    \/ concurrent_load_local_records
    \/ concurrent_open_records_file
    \/ concurrent_dump_records

SpecConcurrent == InitConcurrent /\ [][NextConcurrent]_vars

----------------------------------------------------------------------------
(* Claims about concurrent saves *)

HoldsTripleOf(vd) ==
    \E k \in DOMAIN stored :
        /\ stored[k].city = vd.city
        /\ stored[k].gas = vd.gas
        /\ stored[k].satellite_timestamp = vd.timestamp_ksa

(* C30: once two concurrent save_violation calls for different triples on  *)
(* the local backend have both returned an id, the store holds a record of *)
(* each triple, under every interleaving of their steps.                   *)
C30_NoLostUpdate ==
    (pc = "concurrent"
     /\ \A p \in DOMAIN saver : saver[p].pc = "returned" /\ saver[p].id # NoId)
    => \A p \in DOMAIN saver : HoldsTripleOf(saver[p].input)

====
